---------------------------- MODULE Spec2Model ----------------------------
(***************************************************************************)
(* A model of the Broadway pricing scraper (src/app.py, src/scrape.py).    *)
(*                                                                         *)
(* Text is modelled as a tuple of one-character strings, so that strip,    *)
(* split, regular-expression matching, concatenation and comparison are    *)
(* computed character by character as Python computes them.  Opaque texts  *)
(* (error messages) are plain strings.                                     *)
(***************************************************************************)
EXTENDS Naturals, Integers, Sequences, FiniteSets, TLC

VARIABLES
    \* --- Streamlit session state (src/app.py:55-68) and the batch run ---
    tasks,        \* st.session_state.tasks
    is_running,   \* st.session_state.is_running
    results,      \* st.session_state.results
    message,      \* the last st.warning / st.error text of run_all_tasks
    pc,           \* where the script run stands
    valid_tasks,  \* the running block's re-filtered task list
    futures,      \* the executor's futures, in submission order
    yielded,      \* the futures as_completed has handed to the loop
    collected,    \* the loop's local list `results`
    completed,    \* the loop's local counter `completed`
    site,         \* what the remote page of each task does (environment)
    \* --- the pure functions, applied to inputs drawn by Init ---
    section_text,       \* the argument of _categorize
    category,           \* its value, <<>> before the call
    scraped_data,       \* the argument of the two transformers
    formatted_by_date,  \* the value of format_pricing_by_date
    rows,               \* the value of transform_pricing_to_rows
    called,             \* which of the functions have been applied
    price_text,         \* the argument of normalize_price_display
    price_display,      \* its value, <<>> before the call
    \* --- format_pricing_with_ai and its collaborator (src/app.py:369-506) ---
    transformed_data,   \* the rows given to format_pricing_with_ai
    collaborator,       \* what the chat-completion call does (environment)
    prompt,             \* the price_text of the prompts sent, in order
    ai_result,          \* the returned (result_df, processed_tiers, error)
    \* --- get_broadway_shows (src/scrape.py:11-146) ---
    listing_page,       \* what the shows page does and holds (environment)
    shows,              \* the returned list of listings
    debug,              \* the returned debug messages
    \* --- one call of scrape_pricing, step by step (src/scrape.py:152-278) ---
    show_page,          \* what the show's page does (environment)
    step,               \* the next step of the call
    steps,              \* the steps performed so far, in order
    result,             \* the local dict `result`
    browser,            \* the browser session of the call
    outcome,            \* how the call ended: <<>>, "returned" or "raised"
    \* --- the DOM walk of scrape_pricing (src/scrape.py:254-273) ---
    pricing_grid        \* the page's #pricing-grid element, <<>> when absent

orchVars == <<tasks, is_running, results, message, pc, valid_tasks, futures,
              yielded, collected, completed, site>>

pureVars == <<section_text, category, scraped_data, formatted_by_date, rows,
              called>>

priceVars == <<price_text, price_display>>

tierVars == <<transformed_data, collaborator, prompt, ai_result>>

catalogVars == <<listing_page, shows, debug>>

extractVars == <<show_page, step, steps, result, browser, outcome>>

walkVars == <<pricing_grid>>

extVars == <<priceVars, tierVars, catalogVars, extractVars, walkVars>>

vars == <<orchVars, pureVars, extVars>>

\* The parts of the program a run does not exercise stay as they are here;
\* active names the parts that the run's own Init sets.
IdleBut(active) ==
    /\ "price" \in active \/ (price_text = <<>> /\ price_display = <<>>)
    /\ "tier" \in active
          \/ (/\ transformed_data = <<>> /\ collaborator = <<>>
              /\ prompt = <<>> /\ ai_result = <<>>)
    /\ "catalog" \in active
          \/ (listing_page = <<>> /\ shows = <<>> /\ debug = <<>>)
    /\ "extract" \in active
          \/ (/\ show_page = <<>> /\ step = "idle" /\ steps = <<>>
              /\ result = <<>> /\ browser = "none" /\ outcome = <<>>)
    /\ "walk" \in active \/ pricing_grid = <<>>

IdleExt == IdleBut({})

(***************************************************************************)
(* Bounds of the model.                                                    *)
(***************************************************************************)
MaxTasks == 6
MaxBadBatch == 3

(***************************************************************************)
(* Text helpers.                                                           *)
(***************************************************************************)
None == "<None>"

Digits == {"0", "1", "2", "3", "4", "5", "6", "7", "8", "9"}

WhiteSpace == {" ", "\t", "\n", "\r", "\f"}

\* str.strip(): leading and trailing whitespace removed.
RECURSIVE LStrip(_)
LStrip(s) ==
    IF s # <<>> /\ Head(s) \in WhiteSpace THEN LStrip(Tail(s)) ELSE s

RECURSIVE RStrip(_)
RStrip(s) ==
    IF s # <<>> /\ s[Len(s)] \in WhiteSpace
    THEN RStrip(SubSeq(s, 1, Len(s) - 1))
    ELSE s

Strip(s) == RStrip(LStrip(s))

(***************************************************************************)
(* validate_date (src/app.py:155-160).  The pattern ^\d{2}/\d{2}/\d{4}$ is *)
(* applied with re.match; in Python "$" matches at the end of the string   *)
(* and also just before a newline that ends the string.                    *)
(***************************************************************************)
DatePatternMatches(s) ==
    /\ Len(s) >= 10
    /\ \A i \in {1, 2, 4, 5, 7, 8, 9, 10} : s[i] \in Digits
    /\ s[3] = "/"
    /\ s[6] = "/"
    /\ \/ Len(s) = 10
       \/ Len(s) = 11 /\ s[11] = "\n"

validate_date(date_str) ==
    IF date_str = <<>> THEN TRUE ELSE DatePatternMatches(date_str)

(***************************************************************************)
(* scrape_pricing (src/scrape.py:152-278).  A page is what the browser     *)
(* collaborator does at each step for one URL:                             *)
(*   goto_raises    page.goto(url) raises                                  *)
(*   trigger        #pricing-grid-tab-trigger is found                     *)
(*   click_raises   trigger.click() raises                                 *)
(*   widget         the grid and both date inputs attach in time           *)
(*   eval_raises    a page.evaluate call raises                            *)
(*   rows           a product row appears in time                          *)
(*   grid           #pricing-grid is still there after the row timeout     *)
(*   walk           the lines the DOM walk returns                         *)
(* The value is [raised, exc, value]: an exception that escapes, or the    *)
(* returned dict.                                                          *)
(***************************************************************************)
ErrNoTrigger == "Could not find the element with id 'pricing-grid-tab-trigger'."
ErrClick == "Click failed: element is not visible"
ErrWidget == "Date picker inputs did not appear after opening pricing grid."
ErrGridMissing == "Could not find the element with id 'pricing-grid' after setting dates."
ErrNoRows == "Pricing grid appeared but no product rows found for the given date range."
ExcGoto == "Page.goto: net::ERR_NAME_NOT_RESOLVED"
ExcEvaluate == "Page.evaluate: Execution context was destroyed"

Returned(data, click, error) ==
    [raised |-> FALSE, exc |-> None,
     value |-> [scrapedData |-> data, clickSuccessful |-> click, error |-> error]]

Raised(exc) ==
    [raised |-> TRUE, exc |-> exc,
     value |-> [scrapedData |-> <<>>, clickSuccessful |-> FALSE, error |-> None]]

scrape_pricing(page) ==
    IF page.goto_raises THEN Raised(ExcGoto)
    ELSE IF ~page.trigger THEN Returned(<<>>, FALSE, ErrNoTrigger)
    ELSE IF page.click_raises THEN Returned(<<>>, FALSE, ErrClick)
    ELSE IF ~page.widget THEN Returned(<<>>, TRUE, ErrWidget)
    ELSE IF page.eval_raises THEN Raised(ExcEvaluate)
    ELSE IF ~page.rows
         THEN IF ~page.grid THEN Returned(<<>>, TRUE, ErrGridMissing)
                            ELSE Returned(<<>>, TRUE, ErrNoRows)
    ELSE Returned(page.walk, TRUE, None)

(***************************************************************************)
(* run_scraping_task (src/app.py:620-637): the try/except around the       *)
(* extraction.  The value is what the worker leaves in the task's future:  *)
(* a returned TaskResult, or an exception that escaped the function.  The  *)
(* timestamp field (the wall clock) is left out.                           *)
(***************************************************************************)
FutureValue(r) == [state |-> "finished", value |-> <<r>>, exception |-> None]
FutureException(e) == [state |-> "finished", value |-> <<>>, exception |-> e]

run_scraping_task_uncaught(task, page) ==
    LET r == scrape_pricing(page) IN
    IF r.raised
    THEN FutureException(r.exc)
    ELSE FutureValue([task |-> task, result |-> r.value, success |-> TRUE])

run_scraping_task(task, page) ==
    LET r == scrape_pricing(page) IN
    IF r.raised
    THEN FutureValue([task |-> task,
                      result |-> [error |-> r.exc, scrapedData |-> <<>>,
                                  clickSuccessful |-> FALSE],
                      success |-> FALSE])
    ELSE FutureValue([task |-> task, result |-> r.value, success |-> TRUE])

(***************************************************************************)
(* run_all_tasks (src/app.py:639-664): the validation loop returns at the  *)
(* first task that fails a check, in the order the checks are written.     *)
(***************************************************************************)
TaskProblem(task) ==
    IF Strip(task.url) = <<>> THEN "Show selection is required"
    ELSE IF task.from_date = <<>> THEN "From date is required"
    ELSE IF ~validate_date(task.from_date)
         THEN "Invalid from date format (use MM/DD/YYYY)"
    ELSE IF ~validate_date(task.to_date)
         THEN "Invalid to date format (use MM/DD/YYYY)"
    ELSE None

FirstProblem(ts) ==
    IF \E i \in 1..Len(ts) : TaskProblem(ts[i]) # None
    THEN LET i == CHOOSE j \in 1..Len(ts) :
                      /\ TaskProblem(ts[j]) # None
                      /\ \A k \in 1..(j - 1) : TaskProblem(ts[k]) = None
         IN  <<i, TaskProblem(ts[i])>>
    ELSE <<0, None>>

run_all_tasks ==
    /\ pc = "config"
    /\ ~is_running
    /\ IF tasks = <<>>
       THEN /\ message' = <<0, "No tasks to run!">>
            /\ UNCHANGED <<is_running, pc>>
       ELSE IF FirstProblem(tasks)[2] # None
       THEN /\ message' = FirstProblem(tasks)
            /\ UNCHANGED <<is_running, pc>>
       ELSE /\ is_running' = TRUE
            /\ pc' = "rerun"
            /\ UNCHANGED message
    /\ UNCHANGED <<tasks, results, valid_tasks, futures, yielded, collected,
                   completed, site>>
    /\ UNCHANGED <<pureVars, extVars>>

(***************************************************************************)
(* The running-state block (src/app.py:893-932).                           *)
(***************************************************************************)
max_workers == 5

RECURSIVE SelectValid(_)
SelectValid(ts) ==
    IF ts = <<>> THEN <<>>
    ELSE LET t == Head(ts) IN
         IF /\ Strip(t.url) # <<>>
            /\ t.from_date # <<>>
            /\ validate_date(t.from_date)
            /\ validate_date(t.to_date)
         THEN <<t>> \o SelectValid(Tail(ts))
         ELSE SelectValid(Tail(ts))

PendingFuture == [state |-> "pending", value |-> <<>>, exception |-> None]
RunningFuture == [state |-> "running", value |-> <<>>, exception |-> None]

Extracting == {i \in DOMAIN futures : futures[i].state = "running"}

\* The script is rerun with is_running set: the tasks are filtered again and
\* every valid one is submitted to a fresh ThreadPoolExecutor (lines 894-911).
BeginBatch ==
    /\ pc = "rerun"
    /\ is_running
    /\ valid_tasks' = SelectValid(tasks)
    /\ IF SelectValid(tasks) # <<>>
       THEN /\ futures' = [i \in 1..Len(SelectValid(tasks)) |-> PendingFuture]
            /\ yielded' = {}
            /\ collected' = <<>>
            /\ completed' = 0
            /\ pc' = "pool"
            /\ UNCHANGED is_running
       ELSE /\ is_running' = FALSE
            /\ pc' = "shown"
            /\ UNCHANGED <<futures, yielded, collected, completed>>
    /\ UNCHANGED <<tasks, results, message, site>>
    /\ UNCHANGED <<pureVars, extVars>>

\* A worker thread is free when fewer than max_workers work items are being
\* run; it takes the oldest queued work item (the executor's queue is FIFO).
WorkerFree_unbounded == TRUE

WorkerFree == Cardinality(Extracting) < max_workers

StartTask ==
    /\ pc \in {"pool", "crashed"}
    /\ WorkerFree
    /\ \E i \in DOMAIN futures :
        /\ futures[i].state = "pending"
        /\ \A j \in 1..(i - 1) : futures[j].state # "pending"
        /\ futures' = [futures EXCEPT ![i] = RunningFuture]
    /\ UNCHANGED <<tasks, is_running, results, message, pc, valid_tasks,
                   yielded, collected, completed, site>>
    /\ UNCHANGED <<pureVars, extVars>>

\* The worker's call of run_scraping_task returns (or raises) and the future
\* is set.
FinishTask ==
    /\ pc \in {"pool", "crashed"}
    /\ \E i \in Extracting :
        futures' = [futures EXCEPT ![i] = run_scraping_task(valid_tasks[i], site[i])]
    /\ UNCHANGED <<tasks, is_running, results, message, pc, valid_tasks,
                   yielded, collected, completed, site>>
    /\ UNCHANGED <<pureVars, extVars>>

\* (Collect with the counter left alone: the mutant the completion claim is
\* checked against.)
Collect_uncounted ==
    /\ pc = "pool"
    /\ \E i \in DOMAIN futures \ yielded :
        /\ futures[i].state = "finished"
        /\ yielded' = yielded \cup {i}
        /\ collected' = Append(collected, futures[i].value[1])
    /\ UNCHANGED <<tasks, is_running, results, message, pc, valid_tasks,
                   futures, completed, site>>
    /\ UNCHANGED <<pureVars, extVars>>

\* One iteration of the as_completed loop (lines 913-919): any finished future
\* not yet handed out is yielded; future.result() returns its value or raises
\* its exception, which ends the script run.
Collect ==
    /\ pc = "pool"
    /\ \E i \in DOMAIN futures \ yielded :
        /\ futures[i].state = "finished"
        /\ yielded' = yielded \cup {i}
        /\ IF futures[i].exception # None
           THEN /\ pc' = "crashed"
                /\ UNCHANGED <<collected, completed>>
           ELSE /\ collected' = Append(collected, futures[i].value[1])
                /\ completed' = completed + 1
                /\ UNCHANGED pc
    /\ UNCHANGED <<tasks, is_running, results, message, valid_tasks, futures,
                   site>>
    /\ UNCHANGED <<pureVars, extVars>>

\* (EndBatch storing the results collected so far before the loop has ended:
\* the mutant the publication claim is checked against.)
EndBatch_early ==
    /\ pc = "pool"
    /\ yielded # {}
    /\ results' = collected
    /\ is_running' = FALSE
    /\ pc' = "shown"
    /\ UNCHANGED <<tasks, message, valid_tasks, futures, yielded, collected,
                   completed, site>>
    /\ UNCHANGED <<pureVars, extVars>>

\* The loop ends when every future was yielded; the results are stored and the
\* flag is cleared (lines 921-928).
EndBatch ==
    /\ pc = "pool"
    /\ yielded = DOMAIN futures
    /\ results' = collected
    /\ is_running' = FALSE
    /\ pc' = "shown"
    /\ UNCHANGED <<tasks, message, valid_tasks, futures, yielded, collected,
                   completed, site>>
    /\ UNCHANGED <<pureVars, extVars>>

(***************************************************************************)
(* The batches and the sites the orchestrator is run on.                   *)
(***************************************************************************)
SampleLines ==
    << [dateTime |-> <<"S", "U", "N", ",", " ", "3", "/", "8", "/", "2", "0", "2", "6", " ", "6", ":", "3", "0", "P", "M">>, description |-> <<"O", "r", "c", "h", "/", "M", "e", "z", "z">>,
        price |-> <<"$", "1", "9", "9", ".", "0", "0">>] >>

PageLines ==
    [goto_raises |-> FALSE, trigger |-> TRUE, click_raises |-> FALSE,
     widget |-> TRUE, eval_raises |-> FALSE, rows |-> TRUE, grid |-> TRUE,
     walk |-> SampleLines]

PageEmptyWalk == [PageLines EXCEPT !.walk = <<>>]
PageNoTrigger == [PageLines EXCEPT !.trigger = FALSE]
PageClickFails == [PageLines EXCEPT !.click_raises = TRUE]
PageWidgetTimeout == [PageLines EXCEPT !.widget = FALSE]
PageGridMissing == [PageLines EXCEPT !.rows = FALSE, !.grid = FALSE]
PageNoRows == [PageLines EXCEPT !.rows = FALSE]
PageGotoRaises == [PageLines EXCEPT !.goto_raises = TRUE]
PageEvalRaises == [PageLines EXCEPT !.eval_raises = TRUE]

\* The pages whose extraction returns, and those whose extraction raises.
ReturningPages ==
    << PageLines, PageNoTrigger, PageLines, PageClickFails, PageWidgetTimeout,
       PageGridMissing, PageNoRows, PageEmptyWalk >>

RaisingPages == << PageGotoRaises, PageEvalRaises >>

\* Task i as the configuration page leaves it: the date picker writes both
\* dates as MM/DD/YYYY.  In EmptyToDates batches the to_date is left empty.
GoodTask(i) ==
    [id |-> i - 1, show_title |-> "Show", url |-> <<"/", "s", "h", "o", "w", "s", "/", "a">>,
     from_date |-> <<"0", "3", "/", "0", "8", "/", "2", "0", "2", "6">>, to_date |-> IF i % 2 = 0 THEN <<>> ELSE <<"0", "3", "/", "1", "5", "/", "2", "0", "2", "6">>]

GoodBatch(n) == [i \in 1..n |-> GoodTask(i)]

\* Field values that are not exactly two digits/two digits/four digits.
MalformedDates ==
    { <<"3", "/", "8", "/", "2", "0", "2", "6">>, <<"0", "3", "-", "0", "8", "-", "2", "0", "2", "6">>, <<"0", "3", "/", "0", "8", "/", "2", "6">>, <<"0", "3", "/", "0", "8", "/", "2", "0", "2", "6", "x">>, <<" ", "0", "3", "/", "0", "8", "/", "2", "0", "2", "6">>,
      <<"0", "3", "/", "0", "8", "/", "2", "0", "2", "6", "\n">>, <<"a", "a", "/", "b", "b", "/", "c", "c", "c", "c">> }

BadTasks(i) ==
    {[GoodTask(i) EXCEPT !.url = u] : u \in {<<>>, <<" ", " ">>}}
    \cup {[GoodTask(i) EXCEPT !.from_date = d] : d \in MalformedDates \cup {<<>>}}
    \cup {[GoodTask(i) EXCEPT !.to_date = d] : d \in MalformedDates}

\* A batch with one task of BadTasks at its first or last place.
BadBatches(n) ==
    UNION {{[GoodBatch(n) EXCEPT ![p] = b] : b \in BadTasks(p)} :
              p \in {1, n} \cap (1..n)}

\* Which tasks raise: none, task #3 (the scenario of spec section 8), the
\* first and the last, all of them.
RaisingSets(n) == { {}, {3} \cap (1..n), {1, n}, 1..n }

Site(n, F, shift) ==
    [i \in 1..n |->
        IF i \in F
        THEN RaisingPages[(i % Len(RaisingPages)) + 1]
        ELSE ReturningPages[((i + shift) % Len(ReturningPages)) + 1]]

\* The pure functions are not part of the orchestrator's runs.
IdlePure ==
    /\ section_text = <<>>
    /\ category = <<>>
    /\ scraped_data = <<>>
    /\ formatted_by_date = <<>>
    /\ rows = <<>>
    /\ called = {}

InitOrch(batch, s) ==
    /\ tasks = batch
    /\ site = s
    /\ is_running = FALSE
    /\ results = <<>>
    /\ message = <<0, None>>
    /\ pc = "config"
    /\ valid_tasks = <<>>
    /\ futures = <<>>
    /\ yielded = {}
    /\ collected = <<>>
    /\ completed = 0
    /\ IdlePure
    /\ IdleExt

Scenarios(n) ==
    {<<F, 0>> : F \in RaisingSets(n)} \cup {<<{}, 3>>}

Init ==
    \/ \E n \in 0..MaxTasks : \E sc \in Scenarios(n) :
           InitOrch(GoodBatch(n), Site(n, sc[1], sc[2]))
    \/ \E n \in 1..MaxBadBatch : \E batch \in BadBatches(n) :
           InitOrch(batch, Site(n, {}, 0))

Next ==
    \/ run_all_tasks
    \/ BeginBatch
    \/ StartTask
    \/ FinishTask
    \/ Collect
    \/ EndBatch

Spec == Init /\ [][Next]_vars

\* The batch run under fair scheduling: the rerun happens, a free worker takes
\* queued work, every extraction call returns or raises, and the main thread's
\* loop runs.  The click on "Run All Tasks" is the user's and is not fair.
FairInit ==
    \E n \in 0..MaxTasks : InitOrch(GoodBatch(n), Site(n, {3} \cap (1..n), 0))

FairSpec ==
    /\ FairInit
    /\ [][Next]_vars
    /\ WF_vars(BeginBatch)
    /\ WF_vars(StartTask)
    /\ WF_vars(FinishTask)
    /\ WF_vars(Collect)
    /\ WF_vars(EndBatch)

(***************************************************************************)
(* The claims about the Task Orchestrator.                                 *)
(***************************************************************************)
\* The tasks of the batch whose extraction raises (the set F of C1).
RaisingTasks == {i \in DOMAIN site : scrape_pricing(site[i]).raised}

\* The places of `rs` that hold the result of the i-th submitted task.
ResultsOf(rs, i) == {k \in 1..Len(rs) : rs[k].task = valid_tasks[i]}

\* C1: failure isolation.  The script run never dies of a task's exception;
\* every yielded future has left exactly one TaskResult; a task whose
\* extraction raised has success = FALSE and an error message, and every other
\* task has the result its own page alone determines (what it gets when no
\* task raises); a finished batch of N tasks has stored exactly N results.
C1_FailureIsolation ==
    /\ pc # "crashed"
    /\ Len(collected) = Cardinality(yielded)
    /\ \A i \in yielded :
          /\ Cardinality(ResultsOf(collected, i)) = 1
          /\ \A k \in ResultsOf(collected, i) :
                IF i \in RaisingTasks
                THEN /\ collected[k].success = FALSE
                     /\ collected[k].result.error # None
                ELSE collected[k] =
                        [task |-> valid_tasks[i], success |-> TRUE,
                         result |-> scrape_pricing(site[i]).value]
    /\ (pc = "shown" /\ message[2] = None) =>
          /\ Len(results) = Len(tasks)
          /\ results = collected

\* Witness of C1: a finished batch of more tasks than workers in which task #3
\* alone raised: one failed result, for task #3, and all others successful.
C1_Witness ==
    /\ pc = "shown"
    /\ Len(results) = Len(tasks)
    /\ Len(tasks) > max_workers
    /\ RaisingTasks = {3}
    /\ {k \in 1..Len(results) : ~results[k].success}
          = ResultsOf(results, 3)

\* C2: the concurrency ceiling.  At most 5 tasks are inside an extraction at
\* any time, whatever the number of tasks submitted.
C2_ConcurrencyCeiling == Cardinality(Extracting) <= 5

\* Witness of C2: five extractions run while a sixth task waits in the queue.
C2_Witness ==
    /\ Cardinality(Extracting) = 5
    /\ \E i \in DOMAIN futures : futures[i].state = "pending"

\* What the specification calls a statically invalid task: no show URL, no
\* fromDate, or a fromDate / non-empty toDate that is not exactly
\* two digits/two digits/four digits.
ExactDate(s) ==
    /\ Len(s) = 10
    /\ \A i \in {1, 2, 4, 5, 7, 8, 9, 10} : s[i] \in Digits
    /\ s[3] = "/"
    /\ s[6] = "/"

StaticallyInvalid(task) ==
    \/ task.url = <<>>
    \/ task.from_date = <<>>
    \/ ~ExactDate(task.from_date)
    \/ task.to_date # <<>> /\ ~ExactDate(task.to_date)

\* C3: static validation is all-or-nothing.  If any task of the batch is
\* statically invalid, is_running stays false and no extraction is started for
\* any task of the batch.
C3_StaticValidationAllOrNothing ==
    (\E i \in 1..Len(tasks) : StaticallyInvalid(tasks[i])) =>
        /\ ~is_running
        /\ futures = <<>>
        /\ collected = <<>>

\* C4: every TaskResult is either success with a non-empty list of lines and
\* no error, or failure with no lines and an error message.
TwoShapes(r) ==
    \/ r.success /\ r.result.scrapedData # <<>> /\ r.result.error = None
    \/ ~r.success /\ r.result.scrapedData = <<>> /\ r.result.error # None

C4_ResultShapes ==
    /\ \A k \in 1..Len(collected) : TwoShapes(collected[k])
    /\ \A k \in 1..Len(results) : TwoShapes(results[k])

\* C5: batch completion.  Under fair scheduling a started batch reaches the
\* state where every task has a collected result, the counter equals the
\* number of tasks and is_running is false, whatever the completion order; and
\* the counter moves by exactly one with each collected result.
BatchComplete ==
    /\ pc = "shown"
    /\ ~is_running
    /\ completed = Len(tasks)
    /\ Len(collected) = Len(tasks)
    /\ \A i \in 1..Len(tasks) : \E k \in 1..Len(collected) : collected[k].task = tasks[i]

C5_BatchCompletion ==
    /\ is_running ~> BatchComplete
    /\ [][/\ completed' # completed => /\ completed' = completed + 1
                                       /\ Len(collected') = Len(collected) + 1
          /\ collected' # collected => completed' = completed + 1]_vars

\* Witness of C5: a complete batch of more tasks than workers whose results
\* were collected in an order other than the submission order.
C5_Witness ==
    /\ BatchComplete
    /\ Len(tasks) > max_workers
    /\ collected[1].task = tasks[Len(tasks)]
    /\ collected[Len(tasks)].task = tasks[1]

\* The results section of the page (src/app.py:931): the stored results are
\* shown when there are some and no batch is running.
display_results == IF results # <<>> /\ ~is_running THEN results ELSE <<>>

\* A result set that holds exactly one result of every submitted task.
WholeBatch(rs) ==
    /\ Len(rs) = Len(valid_tasks)
    /\ \A i \in 1..Len(valid_tasks) : Cardinality(ResultsOf(rs, i)) = 1

\* C30: atomic result publication.  The stored result set is replaced once per
\* batch, after the results of all submitted tasks were collected: no state
\* stores or displays some but not all results of the batch.  is_running is
\* true exactly from a successful validation to the end of that batch, it is
\* false afterwards, and results are displayed only while it is false.
C30_AtomicPublication ==
    /\ [](/\ results # <<>> => WholeBatch(results) /\ results = collected
          /\ display_results # <<>> => ~is_running /\ WholeBatch(display_results)
          /\ is_running <=> pc \in {"rerun", "pool"}
          /\ pc = "shown" => ~is_running
          /\ (pc = "shown" /\ valid_tasks # <<>>) => results = collected)
    /\ [][/\ results' # results =>
                /\ results = <<>>
                /\ yielded = DOMAIN futures
                /\ Cardinality(yielded) = Len(valid_tasks)
                /\ results' = collected
                /\ is_running /\ ~is_running'
          /\ (~is_running /\ is_running') =>
                /\ tasks # <<>>
                /\ FirstProblem(tasks)[2] = None
                /\ pc = "config"
          /\ (is_running /\ ~is_running') => pc' = "shown"]_vars

\* Witness of C30: a finished batch of more tasks than workers, with failed and
\* successful tasks, whose whole result set is stored and displayed.
C30_Witness ==
    /\ pc = "shown"
    /\ ~is_running
    /\ Len(valid_tasks) > max_workers
    /\ display_results = collected
    /\ WholeBatch(display_results)
    /\ \E k \in 1..Len(results) : results[k].success
    /\ \E k \in 1..Len(results) : ~results[k].success

(***************************************************************************)
(* Characters: code points (for Python's string comparison) and lower().   *)
(***************************************************************************)
\* The printable ASCII characters in code order, from the space (32) on.  The
\* grave accent (96) cannot be written in a string of this language; its place
\* is held by a name that no text of the model contains.
Ascii ==
    <<" ", "!", "\"", "#", "$", "%", "&", "'", "(", ")", "*", "+", ",", "-", ".", "/", "0", "1", "2", "3", "4", "5", "6", "7", "8", "9", ":", ";", "<", "=", ">", "?", "@", "A", "B", "C", "D", "E", "F", "G", "H", "I", "J", "K", "L", "M", "N", "O", "P", "Q", "R", "S", "T", "U", "V", "W", "X", "Y", "Z", "[", "\\", "]", "^", "_">>
    \o <<"<grave>">> \o <<"a", "b", "c", "d", "e", "f", "g", "h", "i", "j", "k", "l", "m", "n", "o", "p", "q", "r", "s", "t", "u", "v", "w", "x", "y", "z", "{", "|", "}", "~">>

CharCode ==
    [c \in {Ascii[i] : i \in 1..Len(Ascii)} |->
        31 + (CHOOSE i \in 1..Len(Ascii) : Ascii[i] = c)]

Ord(c) ==
    CASE c = "\t" -> 9
      [] c = "\n" -> 10
      [] c = "\f" -> 12
      [] c = "\r" -> 13
      [] OTHER -> CharCode[c]

Lower(c) ==
    IF c \in WhiteSpace THEN c
    ELSE IF CharCode[c] >= 65 /\ CharCode[c] <= 90 THEN Ascii[CharCode[c] + 1]
    ELSE c

Upper(c) ==
    IF c \in WhiteSpace THEN c
    ELSE IF CharCode[c] >= 97 /\ CharCode[c] <= 122 THEN Ascii[CharCode[c] - 63]
    ELSE c

LowerText(s) == [i \in 1..Len(s) |-> Lower(s[i])]
UpperText(s) == [i \in 1..Len(s) |-> Upper(s[i])]

\* Python's  w in t  for strings.
Contains(t, w) ==
    \E i \in 1..(Len(t) - Len(w) + 1) : SubSeq(t, i, i + Len(w) - 1) = w

\* Python's  a < b  for strings: by code point, a proper prefix first.
TextLess(a, b) ==
    LET diff == {k \in 1..Len(a) : k <= Len(b) /\ a[k] # b[k]} IN
    IF diff = {}
    THEN Len(a) < Len(b)
    ELSE LET k == CHOOSE j \in diff : \A i \in diff : j <= i
         IN  Ord(a[k]) < Ord(b[k])

(***************************************************************************)
(* _categorize (src/app.py:567-578).                                       *)
(***************************************************************************)
_categorize_orchestra_first(text) ==
    LET t == LowerText(text) IN
    IF Contains(t, <<"o", "r", "c", "h", "e", "s", "t", "r", "a">>) \/ Contains(t, <<"o", "r", "c", "h">>)
    THEN <<"orchestra", 1>>
    ELSE IF Contains(t, <<"p", "r", "e", "m", "i", "u", "m">>) \/ Contains(t, <<"m", "i", "d", "-", "p", "r", "e", "m", "i", "u", "m">>) \/ Contains(t, <<"m", "i", "d", " ", "p", "r", "e", "m", "i", "u", "m">>)
    THEN <<"premium", 0>>
    ELSE IF Contains(t, <<"m", "e", "z", "z", "a", "n", "i", "n", "e">>) \/ Contains(t, <<"m", "e", "z", "z">>)
    THEN <<"mezzanine", 2>>
    ELSE IF Contains(t, <<"b", "a", "l", "c", "o", "n", "y">>) \/ Contains(t, <<"b", "a", "l", "c">>)
    THEN <<"balcony", 3>>
    ELSE <<"other", 4>>

\* (section_text or "").lower(): a missing label is the empty text.
_categorize(text) ==
    LET t == LowerText(text) IN
    IF Contains(t, <<"p", "r", "e", "m", "i", "u", "m">>) \/ Contains(t, <<"m", "i", "d", "-", "p", "r", "e", "m", "i", "u", "m">>) \/ Contains(t, <<"m", "i", "d", " ", "p", "r", "e", "m", "i", "u", "m">>)
    THEN <<"premium", 0>>
    ELSE IF Contains(t, <<"o", "r", "c", "h", "e", "s", "t", "r", "a">>) \/ Contains(t, <<"o", "r", "c", "h">>)
    THEN <<"orchestra", 1>>
    ELSE IF Contains(t, <<"m", "e", "z", "z", "a", "n", "i", "n", "e">>) \/ Contains(t, <<"m", "e", "z", "z">>)
    THEN <<"mezzanine", 2>>
    ELSE IF Contains(t, <<"b", "a", "l", "c", "o", "n", "y">>) \/ Contains(t, <<"b", "a", "l", "c">>)
    THEN <<"balcony", 3>>
    ELSE <<"other", 4>>

(***************************************************************************)
(* The orchestrator at rest, for the runs of the pure functions.           *)
(***************************************************************************)
IdleOrch ==
    /\ tasks = <<>>
    /\ site = <<>>
    /\ is_running = FALSE
    /\ results = <<>>
    /\ message = <<0, None>>
    /\ pc = "config"
    /\ valid_tasks = <<>>
    /\ futures = <<>>
    /\ yielded = {}
    /\ collected = <<>>
    /\ completed = 0

(***************************************************************************)
(* CatSpec: _categorize applied to a label.  The labels are up to          *)
(* MaxWords words joined by single spaces, and a few words cut in two.     *)
(***************************************************************************)
MaxWords == 2

LabelWords ==
    { <<"P", "r", "e", "m", "i", "u", "m">>, <<"M", "I", "D", "-", "P", "R", "E", "M", "I", "U", "M">>, <<"O", "r", "c", "h", "e", "s", "t", "r", "a">>, <<"o", "r", "c", "h">>, <<"M", "e", "z", "z", "a", "n", "i", "n", "e">>, <<"M", "E", "Z", "Z">>,
      <<"B", "a", "l", "c", "o", "n", "y">>, <<"b", "a", "l", "c">>, <<"B", "o", "x">>, <<"P", "r", "e", "m", "i", "u">>, <<"m">> }

RECURSIVE LabelsOf(_)
LabelsOf(n) ==
    IF n = 0 THEN {<<>>}
    ELSE LET shorter == LabelsOf(n - 1) IN
         shorter \cup LabelWords
                 \cup {l \o <<" ">> \o w : l \in shorter \ {<<>>}, w \in LabelWords}
                 \cup {l \o w : l \in {<<"P", "r", "e", "m", "i", "u">>, <<"O", "r">>}, w \in {<<"m">>, <<"C", "H">>}}

Labels == LabelsOf(MaxWords)

CatInit ==
    /\ IdleOrch
    /\ IdleExt
    /\ section_text \in Labels
    /\ category = <<>>
    /\ scraped_data = <<>>
    /\ formatted_by_date = <<>>
    /\ rows = <<>>
    /\ called = {}

Categorize ==
    /\ "categorize" \notin called
    /\ category' = <<_categorize(section_text)>>
    /\ called' = called \cup {"categorize"}
    /\ UNCHANGED <<section_text, scraped_data, formatted_by_date, rows>>
    /\ UNCHANGED <<orchVars, extVars>>

CatNext == Categorize

CatSpec == CatInit /\ [][CatNext]_vars

(***************************************************************************)
(* The claim about the Category Classifier.                                *)
(***************************************************************************)
Keyword == << <<"p", "r", "e", "m", "i", "u", "m">>, <<"o", "r", "c", "h">>, <<"m", "e", "z", "z">>, <<"b", "a", "l", "c">> >>

\* The ranks whose keyword the lower-cased label contains, and rank 4.
MatchingRanks(text) ==
    {r \in 0..3 : Contains(LowerText(text), Keyword[r + 1])} \cup {4}

BucketOfRank == << "premium", "orchestra", "mezzanine", "balcony", "other" >>

\* C10: categorize is total and first-match-wins: the value is a bucket with
\* the lowest rank whose keyword ("premium", "orch", "mezz", "balc") the
\* lower-cased label contains, and rank 4 when it contains none.
C10_CategorizeFirstMatch ==
    "categorize" \in called =>
        /\ Len(category) = 1
        /\ category[1][2] \in MatchingRanks(section_text)
        /\ \A r \in MatchingRanks(section_text) : category[1][2] <= r
        /\ category[1][1] = BucketOfRank[category[1][2] + 1]

\* Witness of C10: a label with the keywords of two buckets, in upper case and
\* with the lower-ranked keyword last, gets rank 0.
C10_Witness ==
    /\ "categorize" \in called
    /\ section_text = <<"M", "E", "Z", "Z", " ", "M", "I", "D", "-", "P", "R", "E", "M", "I", "U", "M">>
    /\ category = << <<"premium", 0>> >>

(***************************************************************************)
(* More text helpers.                                                      *)
(***************************************************************************)
Letters ==
    {Ascii[i] : i \in 34..59} \cup {Ascii[i] : i \in 66..91}

\* The character at place i, or a non-character beyond the ends.
At(s, i) == IF i \in 1..Len(s) THEN s[i] ELSE "<end>"

\* The first place from i on whose character is not in cs.
RECURSIVE SkipWhile(_, _, _)
SkipWhile(s, i, cs) ==
    IF i <= Len(s) /\ s[i] \in cs THEN SkipWhile(s, i + 1, cs) ELSE i

RemoveChars(s, cs) == SelectSeq(s, LAMBDA c : c \notin cs)

\* str.split(sep) for a one-character separator.
RECURSIVE Split(_, _)
Split(s, sep) ==
    IF \A i \in 1..Len(s) : s[i] # sep
    THEN <<s>>
    ELSE LET i == CHOOSE j \in 1..Len(s) :
                      s[j] = sep /\ \A k \in 1..(j - 1) : s[k] # sep
         IN  <<SubSeq(s, 1, i - 1)>> \o Split(SubSeq(s, i + 1, Len(s)), sep)

\* sep.join(parts)
RECURSIVE Join(_, _)
Join(parts, sep) ==
    IF parts = <<>> THEN <<>>
    ELSE IF Len(parts) = 1 THEN parts[1]
    ELSE parts[1] \o sep \o Join(Tail(parts), sep)

\* str.capitalize()
Capitalize(s) ==
    [i \in 1..Len(s) |-> IF i = 1 THEN Upper(s[i]) ELSE Lower(s[i])]

DigitValue(c) == CharCode[c] - 48

RECURSIVE ToNat(_)
ToNat(ds) ==
    IF ds = <<>> THEN 0
    ELSE 10 * ToNat(SubSeq(ds, 1, Len(ds) - 1)) + DigitValue(ds[Len(ds)])

RECURSIVE Pow10(_)
Pow10(n) == IF n = 0 THEN 1 ELSE 10 * Pow10(n - 1)

(***************************************************************************)
(* extract_price_value (src/app.py:235-244).  The float is kept exactly,   *)
(* as <<mantissa, scale>> standing for mantissa / 10^scale; 0.0 is <<0,0>>.*)
(***************************************************************************)
extract_price_value(price_str) ==
    LET s == RemoveChars(price_str, {"$", ","})
        i == SkipWhile(s, 1, {c \in {s[k] : k \in 1..Len(s)} : c \notin Digits})
    IN  IF i > Len(s) THEN <<0, 0>>
        ELSE LET j == SkipWhile(s, i, Digits)
                 k == IF At(s, j) = "." THEN SkipWhile(s, j + 1, Digits) ELSE j
                 frac == IF At(s, j) = "." THEN SubSeq(s, j + 1, k - 1) ELSE <<>>
             IN  <<ToNat(SubSeq(s, i, j - 1) \o frac), Len(frac)>>

PriceLess(a, b) == a[1] * Pow10(b[2]) < b[1] * Pow10(a[2])
PriceEqual(a, b) == a[1] * Pow10(b[2]) = b[1] * Pow10(a[2])

(***************************************************************************)
(* normalize_price_display (src/app.py:246-252): strip, then remove every  *)
(* ".00" that follows a digit and is not followed by a digit.              *)
(***************************************************************************)
Dot00At(s, i) ==
    /\ At(s, i - 1) \in Digits
    /\ At(s, i) = "."
    /\ At(s, i + 1) = "0"
    /\ At(s, i + 2) = "0"
    /\ At(s, i + 3) \notin Digits

RECURSIVE DropDot00(_, _)
DropDot00(s, i) ==
    IF i > Len(s) THEN <<>>
    ELSE IF Dot00At(s, i) THEN DropDot00(s, i + 3)
    ELSE <<s[i]>> \o DropDot00(s, i + 1)

normalize_price_display(price_str) == DropDot00(Strip(price_str), 1)

(***************************************************************************)
(* The showtime pattern of src/app.py:294, 528 and 547:                    *)
(*   ^\s*([A-Za-z]+),\s*(\d{1,2}/\d{1,2}/\d{4})\s+(\d{1,2}:\d{2}\s*[APMapm]{2})\s*$ *)
(* Each piece is followed by a character it cannot match, so the greedy    *)
(* left-to-right match below finds the match whenever there is one.        *)
(***************************************************************************)
MatchShowtime(s) ==
    LET p1 == SkipWhile(s, 1, WhiteSpace)
        p2 == SkipWhile(s, p1, Letters)
        p3 == SkipWhile(s, p2 + 1, WhiteSpace)
        p4 == SkipWhile(s, p3, Digits)
        p5 == SkipWhile(s, p4 + 1, Digits)
        p6 == SkipWhile(s, p5 + 1, Digits)
        p7 == SkipWhile(s, p6, WhiteSpace)
        p8 == SkipWhile(s, p7, Digits)
        p9 == SkipWhile(s, p8 + 1, Digits)
        p10 == SkipWhile(s, p9, WhiteSpace)
        p11 == p10 + 2
        p12 == SkipWhile(s, p11, WhiteSpace)
        ok == /\ p2 > p1
              /\ At(s, p2) = ","
              /\ p4 - p3 \in {1, 2}
              /\ At(s, p4) = "/"
              /\ p5 - (p4 + 1) \in {1, 2}
              /\ At(s, p5) = "/"
              /\ p6 - (p5 + 1) = 4
              /\ p7 > p6
              /\ p8 - p7 \in {1, 2}
              /\ At(s, p8) = ":"
              /\ p9 - (p8 + 1) = 2
              /\ At(s, p10) \in {"A", "P", "M", "a", "p", "m"}
              /\ At(s, p10 + 1) \in {"A", "P", "M", "a", "p", "m"}
              /\ p12 = Len(s) + 1
    IN  IF ok
        THEN [matched |-> TRUE, day |-> SubSeq(s, p1, p2 - 1),
              date |-> SubSeq(s, p3, p6 - 1), time |-> SubSeq(s, p7, p11 - 1)]
        ELSE [matched |-> FALSE, day |-> <<>>, date |-> <<>>, time |-> <<>>]

\* The fallback pattern ^\s*([A-Za-z]+)(.*)$ of lines 538 and 553: "." stops
\* at a newline and "$" allows one newline at the very end.
MatchLeadingWord(s) ==
    LET p1 == SkipWhile(s, 1, WhiteSpace)
        p2 == SkipWhile(s, p1, Letters)
        p3 == SkipWhile(s, p2, {c \in {s[k] : k \in 1..Len(s)} : c # "\n"})
        ok == /\ p2 > p1
              /\ \/ p3 = Len(s) + 1
                 \/ p3 = Len(s)
    IN  IF ok
        THEN [matched |-> TRUE, day |-> SubSeq(s, p1, p2 - 1),
              rest |-> SubSeq(s, p2, p3 - 1)]
        ELSE [matched |-> FALSE, day |-> <<>>, rest |-> <<>>]

(***************************************************************************)
(* format_pricing_by_date (src/app.py:508-618).  A dict is a sequence of   *)
(* <<key, value>> pairs in insertion order.                                *)
(***************************************************************************)
\* The keys of the grouping dict, in order of first appearance (513-519).
RECURSIVE GroupKeys(_)
GroupKeys(data) ==
    IF data = <<>> THEN <<>>
    ELSE LET before == GroupKeys(SubSeq(data, 1, Len(data) - 1))
             dt == data[Len(data)].dateTime
         IN  IF \E i \in 1..Len(before) : before[i] = dt
             THEN before
             ELSE Append(before, dt)

GroupItems_all(data, dt) == data

GroupItems(data, dt) == SelectSeq(data, LAMBDA item : item.dateTime = dt)

\* The header line (lines 524-559); an empty or missing show_title is falsy.
HeaderText(date_time, show_title) ==
    LET m == MatchShowtime(date_time)
        m2 == MatchLeadingWord(date_time)
        time_part == RemoveChars(UpperText(m.time), {" "})
        normalized_dt == IF m2.matched THEN Capitalize(m2.day) \o m2.rest
                         ELSE date_time
        for == IF show_title # <<>> THEN <<"f", "o", "r", " ">> \o show_title \o <<" ", "o", "n", " ">>
               ELSE <<"f", "o", "r", " ">>
    IN  <<"B", "e", "l", "o", "w", " ", "i", "s", " ", "g", "r", "o", "u", "p", " ", "p", "r", "i", "c", "i", "n", "g", " ">> \o for \o
        (IF m.matched
         THEN Capitalize(m.day) \o <<",", " ">> \o m.date \o <<" ", "a", "t", " ">> \o time_part
         ELSE normalized_dt)
        \o <<",", " ", "s", "u", "b", "j", "e", "c", "t", " ", "t", "o", " ", "c", "h", "a", "n", "g", "e", " ", "a", "n", "d", " ", "a", "v", "a", "i", "l", "a", "b", "i", "l", "i", "t", "y", ".", "\n">>

\* The (line, numeric price, category rank) tuples of one item (581-597).
ItemLines(item) ==
    LET description == item.description
        display_price == normalize_price_display(item.price)
        Tuple(section) ==
            << section \o <<" ", "-", " ">> \o display_price,
               extract_price_value(display_price),
               _categorize(section)[2] >>
        parts == Split(description, "/")
        sections == SelectSeq([i \in 1..Len(parts) |-> Strip(parts[i])],
                              LAMBDA x : x # <<>>)
    IN  IF Contains(description, <<"/">>)
        THEN [i \in 1..Len(sections) |-> Tuple(sections[i])]
        ELSE <<Tuple(description)>>

RECURSIVE PricingLines(_)
PricingLines(items) ==
    IF items = <<>> THEN <<>>
    ELSE ItemLines(Head(items)) \o PricingLines(Tail(items))

\* Exact duplicate lines removed, the first occurrence kept (599-607).
DedupLines_none(ls) == ls

RECURSIVE DedupLines(_)
DedupLines(ls) ==
    IF ls = <<>> THEN <<>>
    ELSE LET before == DedupLines(SubSeq(ls, 1, Len(ls) - 1))
             x == ls[Len(ls)]
         IN  IF \E i \in 1..Len(before) : before[i][1] = x[1]
             THEN before
             ELSE Append(before, x)

\* The sort key (x[2], -x[1], x[0]) of line 610, compared as Python compares
\* tuples.
KeyLess_price_first(a, b) ==
    \/ PriceLess(b[2], a[2])
    \/ PriceEqual(a[2], b[2]) /\ a[3] < b[3]
    \/ PriceEqual(a[2], b[2]) /\ a[3] = b[3] /\ TextLess(a[1], b[1])

KeyLess(a, b) ==
    \/ a[3] < b[3]
    \/ a[3] = b[3] /\ PriceLess(b[2], a[2])
    \/ a[3] = b[3] /\ PriceEqual(a[2], b[2]) /\ TextLess(a[1], b[1])

\* list.sort: a stable sort.  x goes after the last element not greater.
InsertSorted(sorted, x) ==
    LET keep == {i \in 1..Len(sorted) : ~KeyLess(x, sorted[i])}
        n == IF keep = {} THEN 0 ELSE CHOOSE i \in keep : \A j \in keep : j <= i
    IN  SubSeq(sorted, 1, n) \o <<x>> \o SubSeq(sorted, n + 1, Len(sorted))

RECURSIVE SortLines(_)
SortLines(ls) ==
    IF ls = <<>> THEN <<>>
    ELSE InsertSorted(SortLines(SubSeq(ls, 1, Len(ls) - 1)), ls[Len(ls)])

\* The sorted, deduplicated line texts of one group (lines 563-614).
SortedLineTexts(items) ==
    LET pricing_lines == SortLines(DedupLines(PricingLines(items)))
    IN  [i \in 1..Len(pricing_lines) |-> pricing_lines[i][1]]

FormatGroup(date_time, items, show_title) ==
    LET text_lines == <<HeaderText(date_time, show_title)>>
                      \o SortedLineTexts(items)
    IN  Join(text_lines, <<"\n">>)

format_pricing_by_date(data, show_title) ==
    LET keys == GroupKeys(data) IN
    [g \in 1..Len(keys) |->
        <<keys[g], FormatGroup(keys[g], GroupItems(data, keys[g]), show_title)>>]

(***************************************************************************)
(* TextSpec: format_pricing_by_date applied to every list of at most       *)
(* MaxTextLines lines drawn from TextPool.                                 *)
(***************************************************************************)
MaxTextLines == 3

ShowtimeA == <<"S", "U", "N", "D", "A", "Y", ",", " ", "3", "/", "8", "/", "2", "0", "2", "6", " ", "6", ":", "3", "0", "P", "M">>
ShowtimeB == <<"t", "b", "a", " ", "3", "/", "9">>

Line(dt, description, price) ==
    [dateTime |-> dt, description |-> description, price |-> price]

TextPool ==
    { Line(ShowtimeA, <<"O", "r", "c", "h", "e", "s", "t", "r", "a">>, <<"$", "2", "0", "0">>),
      Line(ShowtimeA, <<"P", "r", "e", "m", "i", "u", "m">>, <<"$", "1", "5", "0">>),
      Line(ShowtimeA, <<"M", "e", "z", "z", "a", "n", "i", "n", "e">>, <<"$", "3", "0", "0">>),
      Line(ShowtimeA, <<"P", "r", "e", "m", "i", "u", "m">>, <<"$", "1", "5", "0", ".", "0", "0">>),
      Line(ShowtimeA, <<"P", "r", "e", "m", "i", "u", "m", "/", "O", "r", "c", "h">>, <<"$", "2", "0", "0">>),
      Line(ShowtimeA, <<"O", "r", "c", "h", " ", "/", " ", "P", "r", "e", "m", "i", "u", "m">>, <<"$", "1", "5", "0">>),
      Line(ShowtimeA, <<"B", "o", "x">>, <<"$", "3", "0", "0">>),
      Line(ShowtimeA, <<"B", "a", "l", "c", "o", "n", "y", "/">>, <<"$", "1", ",", "2", "0", "0", ".", "5", "0">>),
      Line(ShowtimeB, <<"P", "r", "e", "m", "i", "u", "m">>, <<"$", "3", "0", "0">>) }

RECURSIVE ListsOver(_, _)
ListsOver(pool, n) ==
    IF n = 0 THEN {<<>>}
    ELSE LET shorter == ListsOver(pool, n - 1) IN
         shorter \cup {Append(l, x) : l \in {s \in shorter : Len(s) = n - 1}, x \in pool}

TextInit ==
    /\ IdleOrch
    /\ IdleExt
    /\ section_text = <<>>
    /\ category = <<>>
    /\ scraped_data \in ListsOver(TextPool, MaxTextLines)
    /\ formatted_by_date = <<>>
    /\ rows = <<>>
    /\ called = {}

FormatText ==
    /\ "format" \notin called
    /\ \E show_title \in {<<>>, <<"S", "i", "x">>} :
           formatted_by_date' = format_pricing_by_date(scraped_data, show_title)
    /\ called' = called \cup {"format"}
    /\ UNCHANGED <<section_text, category, scraped_data, rows>>
    /\ UNCHANGED <<orchVars, extVars>>

TextNext == FormatText

TextSpec == TextInit /\ [][TextNext]_vars

(***************************************************************************)
(* The claims about the display-text output.                               *)
(***************************************************************************)
\* The pricing lines of a formatted text: what follows the header line and
\* the empty line its own newline leaves.
DisplayLines(text) ==
    LET ls == Split(text, "\n") IN SubSeq(ls, 3, Len(ls))

\* The set of line texts "<section> - <display price>" the lines of showtime
\* dt give, sections being the trimmed non-empty slash-separated pieces.
DerivedLines(data, dt) ==
    UNION { { Strip(p) \o <<" ", "-", " ">> \o normalize_price_display(item.price) :
                p \in { q \in { Split(item.description, "/")[i] :
                                  i \in 1..Len(Split(item.description, "/")) } :
                        Strip(q) # <<>> } } :
            item \in { data[i] : i \in { j \in 1..Len(data) : data[j].dateTime = dt } } }

\* C8: display-text deduplication.  Every showtime of the input has one text;
\* in it each derived line text appears exactly once and none is missing.
C8_DisplayDedup ==
    "format" \in called =>
        /\ {formatted_by_date[g][1] : g \in 1..Len(formatted_by_date)}
              = {scraped_data[i].dateTime : i \in 1..Len(scraped_data)}
        /\ \A g \in 1..Len(formatted_by_date) :
             LET ls == DisplayLines(formatted_by_date[g][2]) IN
             /\ \A i, j \in 1..Len(ls) : ls[i] = ls[j] => i = j
             /\ {ls[i] : i \in 1..Len(ls)}
                   = DerivedLines(scraped_data, formatted_by_date[g][1])

\* Witness of C8: the same line three times, once as "$150.00" and once inside
\* a slash-split description, is emitted once.
C8_Witness ==
    /\ "format" \in called
    /\ scraped_data = << Line(ShowtimeA, <<"P", "r", "e", "m", "i", "u", "m">>, <<"$", "1", "5", "0">>),
                         Line(ShowtimeA, <<"P", "r", "e", "m", "i", "u", "m">>, <<"$", "1", "5", "0", ".", "0", "0">>),
                         Line(ShowtimeA, <<"O", "r", "c", "h", " ", "/", " ", "P", "r", "e", "m", "i", "u", "m">>, <<"$", "1", "5", "0">>) >>
    /\ DisplayLines(formatted_by_date[1][2])
          = << <<"P", "r", "e", "m", "i", "u", "m", " ", "-", " ", "$", "1", "5", "0">>, <<"O", "r", "c", "h", " ", "-", " ", "$", "1", "5", "0">> >>

\* The section and the price of a line text "<section> - <price>".
SectionOfLine(l) ==
    LET i == CHOOSE j \in 1..Len(l) :
                 /\ SubSeq(l, j, j + 2) = <<" ", "-", " ">>
                 /\ \A k \in 1..(j - 1) : SubSeq(l, k, k + 2) # <<" ", "-", " ">>
    IN  SubSeq(l, 1, i - 1)

PriceOfLine(l) == SubSeq(l, Len(SectionOfLine(l)) + 4, Len(l))

\* (rank ascending, numeric price descending, line text ascending): a comes
\* no later than b.
InDisplayOrder(a, b) ==
    LET ra == _categorize(SectionOfLine(a))[2]
        rb == _categorize(SectionOfLine(b))[2]
        pa == extract_price_value(PriceOfLine(a))
        pb == extract_price_value(PriceOfLine(b))
    IN  \/ ra < rb
        \/ ra = rb /\ pa[1] * Pow10(pb[2]) > pb[1] * Pow10(pa[2])
        \/ ra = rb /\ pa[1] * Pow10(pb[2]) = pb[1] * Pow10(pa[2])
                   /\ (a = b \/ TextLess(a, b))

LinesOfShowtime(fmt, dt) ==
    LET gs == {g \in 1..Len(fmt) : fmt[g][1] = dt} IN
    IF gs = {} THEN <<>> ELSE DisplayLines(fmt[CHOOSE g \in gs : TRUE][2])

SwapFirstTwo(l) ==
    IF Len(l) < 2 THEN l ELSE <<l[2], l[1]>> \o SubSeq(l, 3, Len(l))

Rotate(l) == IF l = <<>> THEN l ELSE Append(Tail(l), Head(l))

\* C9: display-text ordering.  Each line of a showtime and the next one are in
\* the order (category rank ascending, numeric price descending, line text
\* ascending), and the rank never decreases along the lines (both orders are
\* transitive, so this orders every pair); and the lines are the same for the
\* input with its first two lines swapped and for the input rotated by one
\* (these two generate every permutation, and the inputs of TextSpec are
\* closed under permutation).
C9_DisplayOrder ==
    "format" \in called =>
        /\ \A g \in 1..Len(formatted_by_date) :
             LET ls == DisplayLines(formatted_by_date[g][2]) IN
             \A i \in 1..(Len(ls) - 1) :
                 /\ InDisplayOrder(ls[i], ls[i + 1])
                 /\ _categorize(SectionOfLine(ls[i]))[2]
                       <= _categorize(SectionOfLine(ls[i + 1]))[2]
        /\ \A dt \in {scraped_data[i].dateTime : i \in 1..Len(scraped_data)} :
             /\ SortedLineTexts(GroupItems(SwapFirstTwo(scraped_data), dt))
                   = LinesOfShowtime(formatted_by_date, dt)
             /\ SortedLineTexts(GroupItems(Rotate(scraped_data), dt))
                   = LinesOfShowtime(formatted_by_date, dt)

\* Witness of C9: the lines Orchestra $200, Premium $150, Mezzanine $300 come
\* out as Premium, Orchestra, Mezzanine.
C9_Witness ==
    /\ "format" \in called
    /\ scraped_data = << Line(ShowtimeA, <<"O", "r", "c", "h", "e", "s", "t", "r", "a">>, <<"$", "2", "0", "0">>),
                         Line(ShowtimeA, <<"P", "r", "e", "m", "i", "u", "m">>, <<"$", "1", "5", "0">>),
                         Line(ShowtimeA, <<"M", "e", "z", "z", "a", "n", "i", "n", "e">>, <<"$", "3", "0", "0">>) >>
    /\ DisplayLines(formatted_by_date[1][2])
          = << <<"P", "r", "e", "m", "i", "u", "m", " ", "-", " ", "$", "1", "5", "0">>, <<"O", "r", "c", "h", "e", "s", "t", "r", "a", " ", "-", " ", "$", "2", "0", "0">>, <<"M", "e", "z", "z", "a", "n", "i", "n", "e", " ", "-", " ", "$", "3", "0", "0">> >>

(***************************************************************************)
(* transform_pricing_to_rows (src/app.py:254-367).  A row is a dict: a     *)
(* sequence of <<key, value>> pairs in insertion order.                    *)
(***************************************************************************)
\* str(n) for a natural number.
RECURSIVE NatToText(_)
NatToText(n) ==
    IF n < 10 THEN <<Ascii[n + 17]>>
    ELSE NatToText(n \div 10) \o <<Ascii[(n % 10) + 17]>>

HasKey(row, key) == \E i \in 1..Len(row) : row[i][1] = key

\* row[key] for a key of the row, and row.get(key, '').
Get(row, key) ==
    IF HasKey(row, key)
    THEN row[CHOOSE i \in 1..Len(row) : row[i][1] = key][2]
    ELSE <<>>

\* row[key] = value: a present key keeps its place, a new key goes last.
Put(row, key, value) ==
    IF HasKey(row, key)
    THEN [i \in 1..Len(row) |-> IF row[i][1] = key THEN <<key, value>> ELSE row[i]]
    ELSE Append(row, <<key, value>>)

month_names ==
    << <<"J", "a", "n">>, <<"F", "e", "b">>, <<"M", "a", "r">>, <<"A", "p", "r">>, <<"M", "a", "y">>, <<"J", "u", "n">>,
       <<"J", "u", "l">>, <<"A", "u", "g">>, <<"S", "e", "p">>, <<"O", "c", "t">>, <<"N", "o", "v">>, <<"D", "e", "c">> >>

\* Lines 301-310: month_names[0] is "", an index above 12 raises and the
\* date part is kept as it is.
FormattedDate(date_part) ==
    LET parts == Split(date_part, "/")
        month_num == ToNat(parts[1])
        day_num == ToNat(parts[2])
        year == parts[3]
        month == IF month_num = 0 THEN <<>> ELSE month_names[month_num]
    IN  IF month_num > 12 THEN date_part
        ELSE month \o <<" ">> \o NatToText(day_num) \o <<",", " ">> \o year

\* Lines 316-325.
EventTime_noon_is_24(time_part) ==
    LET hour == ToNat(Split(time_part, ":")[1])
        is_pm == Contains(UpperText(time_part), <<"P", "M">>)
        hour24 == IF is_pm THEN hour + 12 ELSE hour
    IN  IF hour24 < 17 THEN <<"m", "a", "t", "i", "n", "e", "e">> ELSE <<"e", "v", "e", "n", "i", "n", "g">>

EventTime(time_part) ==
    LET hour == ToNat(Split(time_part, ":")[1])
        is_pm == Contains(UpperText(time_part), <<"P", "M">>)
        hour24 == IF is_pm /\ hour # 12 THEN hour + 12
                  ELSE IF ~is_pm /\ hour = 12 THEN 0
                  ELSE hour
    IN  IF hour24 < 17 THEN <<"m", "a", "t", "i", "n", "e", "e">> ELSE <<"e", "v", "e", "n", "i", "n", "g">>

\* The three leading columns of a row (lines 291-334).
RowHeader(date_time) ==
    LET m == MatchShowtime(date_time)
        time_part == RemoveChars(UpperText(m.time), {" "})
        n == Len(time_part)
        time_formatted == SubSeq(time_part, 1, n - 2) \o <<" ">>
                          \o SubSeq(time_part, n - 1, n)
    IN  IF m.matched
        THEN << <<<<"e", "v", "e", "n", "t", "_", "d", "a", "t", "e">>, FormattedDate(m.date)>>,
                <<<<"e", "v", "e", "n", "t", "_", "t", "i", "m", "e">>, EventTime(time_part)>>,
                <<<<"t", "i", "m", "e">>, time_formatted>> >>
        ELSE << <<<<"e", "v", "e", "n", "t", "_", "d", "a", "t", "e">>, date_time>>,
                <<<<"e", "v", "e", "n", "t", "_", "t", "i", "m", "e">>, <<"u", "n", "k", "n", "o", "w", "n">>>>,
                <<<<"t", "i", "m", "e">>, <<>> >> >>

\* The (section, normalized price) pairs of one item, in order (339-346).
ItemSections(item) ==
    LET description == Strip(item.description)
        normalized_price == normalize_price_display(item.price)
        parts == Split(description, "/")
        sections == IF Contains(description, <<"/">>)
                    THEN [i \in 1..Len(parts) |-> Strip(parts[i])]
                    ELSE <<description>>
        kept == SelectSeq(sections, LAMBDA section : section # <<>>)
    IN  IF description = <<>> THEN <<>>
        ELSE [i \in 1..Len(kept) |-> <<kept[i], normalized_price>>]

RECURSIVE SectionPairs(_)
SectionPairs(items) ==
    IF items = <<>> THEN <<>>
    ELSE ItemSections(Head(items)) \o SectionPairs(Tail(items))

\* f"{section} ({counter})"
SuffixedKey(section, counter) ==
    section \o <<" ", "(">> \o NatToText(counter) \o <<")">>

\* The loop of lines 349-351, entered with counter = 2.
FreeCounter_first(row, section, counter) == counter

RECURSIVE FreeCounter(_, _, _)
FreeCounter(row, section, counter) ==
    IF HasKey(row, SuffixedKey(section, counter))
    THEN FreeCounter(row, section, counter + 1)
    ELSE counter

\* Lines 347-353.
InsertSection(row, section, normalized_price) ==
    LET key == IF HasKey(row, section) /\ Get(row, section) # normalized_price
               THEN SuffixedKey(section, FreeCounter(row, section, 2))
               ELSE section
    IN  Put(row, key, normalized_price)

RECURSIVE InsertAll(_, _)
InsertAll(row, pairs) ==
    IF pairs = <<>> THEN row
    ELSE InsertAll(InsertSection(row, Head(pairs)[1], Head(pairs)[2]), Tail(pairs))

BuildRow(date_time, items) ==
    InsertAll(RowHeader(date_time), SectionPairs(items))

\* datetime.strptime(date_str, "%b %d, %Y") (line 361): the date as
\* <<year, month, day, 0>>, and datetime.max, <<9999, 12, 31, 1>>, when the
\* text does not parse or names no calendar day.
DaysInMonth(year, month) ==
    IF month = 2
    THEN IF (year % 4 = 0 /\ year % 100 # 0) \/ year % 400 = 0 THEN 29 ELSE 28
    ELSE IF month \in {4, 6, 9, 11} THEN 30
    ELSE 31

parse_event_date(row) ==
    LET date_str == Get(row, <<"e", "v", "e", "n", "t", "_", "d", "a", "t", "e">>)
        abbr == LowerText(SubSeq(date_str, 1, 3))
        months == {k \in 1..12 : LowerText(month_names[k]) = abbr}
        p2 == SkipWhile(date_str, 4, WhiteSpace)
        p3 == SkipWhile(date_str, p2, Digits)
        p4 == SkipWhile(date_str, p3 + 1, WhiteSpace)
        p5 == SkipWhile(date_str, p4, Digits)
        ok == /\ months # {}
              /\ p2 > 4
              /\ p3 - p2 \in {1, 2}
              /\ At(date_str, p3) = ","
              /\ p4 > p3 + 1
              /\ p5 - p4 = 4
              /\ p5 = Len(date_str) + 1
        month == CHOOSE k \in months : TRUE
        day == ToNat(SubSeq(date_str, p2, p3 - 1))
        year == ToNat(SubSeq(date_str, p4, p5 - 1))
    IN  IF ok /\ year >= 1 /\ day >= 1 /\ day <= DaysInMonth(year, month)
        THEN <<year, month, day, 0>>
        ELSE <<9999, 12, 31, 1>>

\* The sort key (parse_event_date(r), r.get('time', '')) of line 365.
DateLess(a, b) ==
    \E k \in 1..4 : a[k] < b[k] /\ \A j \in 1..(k - 1) : a[j] = b[j]

RowLess(a, b) ==
    \/ DateLess(parse_event_date(a), parse_event_date(b))
    \/ /\ parse_event_date(a) = parse_event_date(b)
       /\ TextLess(Get(a, <<"t", "i", "m", "e">>), Get(b, <<"t", "i", "m", "e">>))

\* list.sort: a stable sort.
InsertRow(sorted, r) ==
    LET keep == {i \in 1..Len(sorted) : ~RowLess(r, sorted[i])}
        n == IF keep = {} THEN 0 ELSE CHOOSE i \in keep : \A j \in keep : j <= i
    IN  SubSeq(sorted, 1, n) \o <<r>> \o SubSeq(sorted, n + 1, Len(sorted))

SortRows_unsorted(rs) == rs

RECURSIVE SortRows(_)
SortRows(rs) ==
    IF rs = <<>> THEN <<>>
    ELSE InsertRow(SortRows(SubSeq(rs, 1, Len(rs) - 1)), rs[Len(rs)])

transform_pricing_to_rows(data) ==
    LET keys == GroupKeys(data) IN
    SortRows([g \in 1..Len(keys) |-> BuildRow(keys[g], GroupItems(data, keys[g]))])

(***************************************************************************)
(* RowsSpec: transform_pricing_to_rows applied to a list of up to          *)
(* MaxRowLines scraped lines.                                              *)
(***************************************************************************)
MaxRowLines == 3

ShowtimeC == <<"S", "A", "T", ",", " ", "3", "/", "7", "/", "2", "0", "2", "6", " ", "2", ":", "0", "0", " ", "p", "m">>
ShowtimeD == <<"M", "O", "N", ",", " ", "1", "3", "/", "1", "/", "2", "0", "2", "6", " ", "1", "2", ":", "0", "0", "A", "M">>
ShowtimeE == <<"t", "b", "a">>

RowPool ==
    { Line(ShowtimeA, <<"O", "r", "c", "h">>, <<"$", "1", "0", "0">>),
      Line(ShowtimeA, <<"O", "r", "c", "h">>, <<"$", "2", "0", "0">>),
      Line(ShowtimeA, <<" ", "O", "r", "c", "h", " ">>, <<"$", "3", "0", "0", ".", "0", "0">>),
      Line(ShowtimeA, <<"O", "r", "c", "h", " ", "(", "2", ")">>, <<"$", "1", "0", "0">>),
      Line(ShowtimeA, <<"O", "r", "c", "h", " ", "/", " ", "M", "e", "z", "z">>, <<"$", "2", "0", "0", ".", "0", "0">>),
      Line(ShowtimeA, <<>>, <<"$", "1", "0">>),
      Line(ShowtimeC, <<"O", "r", "c", "h">>, <<"$", "1", "0", "0">>),
      Line(ShowtimeD, <<"B", "o", "x">>, <<"$", "1", ",", "0", "0", "0", ".", "0", "0">>),
      Line(ShowtimeE, <<"M", "e", "z", "z", "/">>, <<"$", "5", "0">>) }

\* Labels of one date in other spellings, of other dates, of one date at
\* several times, and labels whose date names no calendar day.
LabelPool ==
    { ShowtimeA, <<"S", "u", "n", "d", "a", "y", ",", " ", "0", "3", "/", "0", "8", "/", "2", "0", "2", "6", " ", "6", ":", "3", "0", " ", "P", "M">>, <<"M", "O", "N", ",", " ", "3", "/", "9", "/", "2", "0", "2", "6", " ", "1", "0", ":", "0", "0", "A", "M">>,
      <<"M", "O", "N", ",", " ", "3", "/", "9", "/", "2", "0", "2", "6", " ", "9", ":", "0", "0", "A", "M">>, ShowtimeC, ShowtimeD, <<"F", "R", "I", ",", " ", "2", "/", "3", "0", "/", "2", "0", "2", "6", " ", "8", ":", "0", "0", "P", "M">>,
      ShowtimeE, <<"W", "E", "D", ",", " ", "1", "2", "/", "3", "1", "/", "2", "0", "2", "5", " ", "7", ":", "0", "0", "P", "M">> }

\* A label at the hour h, with the minutes and the meridiem as written.
HourLabel(h, minutes, meridiem) ==
    <<"S", "U", "N", ",", " ", "3", "/", "8", "/", "2", "0", "2", "6", " ">> \o NatToText(h) \o <<":">> \o minutes \o meridiem

Meridiems == { <<"A", "M">>, <<"P", "M">>, <<"a", "m">>, <<"p", "m">>, <<" ", "A", "M">>, <<" ", "P", "M">> }

HourLabels ==
    { HourLabel(h, minutes, meridiem) :
        h \in 1..12, minutes \in {<<"0", "0">>, <<"5", "9">>}, meridiem \in Meridiems }

RowsInit ==
    /\ IdleOrch
    /\ IdleExt
    /\ section_text = <<>>
    /\ category = <<>>
    /\ scraped_data \in
           ListsOver(RowPool, MaxRowLines)
           \cup ListsOver({ Line(l, <<"O", "r", "c", "h">>, <<"$", "1", "0", "0">>) : l \in LabelPool }, MaxRowLines)
           \cup { << Line(l, <<"O", "r", "c", "h">>, <<"$", "1", "0", "0">>) >> : l \in HourLabels }
    /\ formatted_by_date = <<>>
    /\ rows = <<>>
    /\ called = {}

TransformRows ==
    /\ "rows" \notin called
    /\ rows' = transform_pricing_to_rows(scraped_data)
    /\ called' = called \cup {"rows"}
    /\ UNCHANGED <<section_text, category, scraped_data, formatted_by_date>>
    /\ UNCHANGED <<orchVars, extVars>>

RowsNext == TransformRows

RowsSpec == RowsInit /\ [][RowsNext]_vars

(***************************************************************************)
(* The claims about the columns of a row.                                  *)
(***************************************************************************)
Showtimes == {scraped_data[i].dateTime : i \in 1..Len(scraped_data)}

\* The sections inserted into the row of showtime dt, in order.
InsertionsOf(dt) == SectionPairs(GroupItems(scraped_data, dt))

\* The row of showtime dt after its first k insertions.
RowAfter(dt, k) == InsertAll(RowHeader(dt), SubSeq(InsertionsOf(dt), 1, k))

KeysOf(row) == {row[i][1] : i \in 1..Len(row)}

\* The smallest k >= 2 for which "<section> (k)" is not a key of the row.
SmallestFreeSuffix(row, section) ==
    CHOOSE k \in 2..(Len(row) + 2) :
        /\ SuffixedKey(section, k) \notin KeysOf(row)
        /\ \A j \in 2..(k - 1) : SuffixedKey(section, j) \in KeysOf(row)

\* C6: collision suffix.  Within the row of one showtime, whenever a section
\* is inserted whose name is already a key holding a different price, the row
\* after the insertion is the row before it with one more column at the end:
\* the name with the smallest suffix " (k)", k >= 2, that was not yet a key,
\* holding the new price; so every earlier column keeps its price.  The row
\* after the last insertion is one of the returned rows.
C6_CollisionSuffix ==
    "rows" \in called =>
        \A dt \in Showtimes :
            /\ \E i \in 1..Len(rows) :
                   rows[i] = RowAfter(dt, Len(InsertionsOf(dt)))
            /\ \A k \in 1..Len(InsertionsOf(dt)) :
                   LET before == RowAfter(dt, k - 1)
                       after == RowAfter(dt, k)
                       section == InsertionsOf(dt)[k][1]
                       price == InsertionsOf(dt)[k][2]
                   IN  (section \in KeysOf(before) /\ Get(before, section) # price)
                       => after = Append(before,
                                    << SuffixedKey(section,
                                           SmallestFreeSuffix(before, section)),
                                       price >>)

\* Witness of C6: three prices of one section give the columns "Orch",
\* "Orch (2)" and "Orch (3)", each with its own price.
C6_Witness ==
    /\ "rows" \in called
    /\ scraped_data = << Line(ShowtimeA, <<"O", "r", "c", "h">>, <<"$", "1", "0", "0">>),
                         Line(ShowtimeA, <<"O", "r", "c", "h">>, <<"$", "2", "0", "0">>),
                         Line(ShowtimeA, <<" ", "O", "r", "c", "h", " ">>, <<"$", "3", "0", "0", ".", "0", "0">>) >>
    /\ rows = << << <<<<"e", "v", "e", "n", "t", "_", "d", "a", "t", "e">>, <<"M", "a", "r", " ", "8", ",", " ", "2", "0", "2", "6">>>>,
                    <<<<"e", "v", "e", "n", "t", "_", "t", "i", "m", "e">>, <<"e", "v", "e", "n", "i", "n", "g">>>>,
                    <<<<"t", "i", "m", "e">>, <<"6", ":", "3", "0", " ", "P", "M">>>>,
                    <<<<"O", "r", "c", "h">>, <<"$", "1", "0", "0">>>>,
                    <<<<"O", "r", "c", "h", " ", "(", "2", ")">>, <<"$", "2", "0", "0">>>>,
                    <<<<"O", "r", "c", "h", " ", "(", "3", ")">>, <<"$", "3", "0", "0">>>> >> >>

\* The columns a section name gives rise to: the name itself and the name
\* with a counting suffix.
ColumnsOf(section, row) ==
    {section} \cup {SuffixedKey(section, k) : k \in 2..(Len(row) + 1)}

\* No section of the input is itself written with a counting suffix of
\* another section of the input, so that a suffixed column has one origin.
PlainSections ==
    \A dt \in Showtimes :
        \A a, b \in 1..Len(InsertionsOf(dt)) :
            \A k \in 2..(Len(scraped_data) + 4) :
                InsertionsOf(dt)[a][1] # SuffixedKey(InsertionsOf(dt)[b][1], k)

\* C7: no duplicated column for a repeated (name, price).  No returned row
\* has two columns derived from the same section name (the name itself or the
\* name with a counting suffix) that hold the same price.
C7_NoDuplicatedColumn ==
    ("rows" \in called /\ PlainSections) =>
        \A dt \in Showtimes :
            \A k \in 1..Len(InsertionsOf(dt)) :
                \A i \in 1..Len(rows) :
                    \A a, b \in 1..Len(rows[i]) :
                        ( /\ a < b
                          /\ rows[i] = RowAfter(dt, Len(InsertionsOf(dt)))
                          /\ rows[i][a][1] \in ColumnsOf(InsertionsOf(dt)[k][1], rows[i])
                          /\ rows[i][b][1] \in ColumnsOf(InsertionsOf(dt)[k][1], rows[i]) )
                        => rows[i][a][2] # rows[i][b][2]

\* C24: no two returned rows have the same (event_date, time).
C24_OneRowPerShowtime ==
    "rows" \in called =>
        \A i, j \in 1..Len(rows) :
            i < j => << Get(rows[i], <<"e", "v", "e", "n", "t", "_", "d", "a", "t", "e">>), Get(rows[i], <<"t", "i", "m", "e">>) >>
                     # << Get(rows[j], <<"e", "v", "e", "n", "t", "_", "d", "a", "t", "e">>), Get(rows[j], <<"t", "i", "m", "e">>) >>

\* The calendar day of a row as a number, for a row whose date parses.
Parseable(row) == parse_event_date(row)[4] = 0
DayNumber(row) ==
    parse_event_date(row)[1] * 10000 + parse_event_date(row)[2] * 100
        + parse_event_date(row)[3]

\* The list with its items in the opposite order.
Reversed(list) == [i \in 1..Len(list) |-> list[Len(list) + 1 - i]]

SortKeys(rs) ==
    [i \in 1..Len(rs) |-> << parse_event_date(rs[i]), Get(rs[i], <<"t", "i", "m", "e">>) >>]

\* C25: of two returned rows the earlier one has the earlier or the same
\* calendar day, every row whose date does not parse comes after every row
\* whose date parses, and rows of one day (or without a day) are in ascending
\* order of the time text; the lines given in the opposite order give the same
\* sequence of sort keys.
C25_RowOrdering ==
    "rows" \in called =>
        /\ \A i, j \in 1..Len(rows) :
               i < j =>
                   /\ Parseable(rows[j]) => Parseable(rows[i])
                   /\ (Parseable(rows[i]) /\ Parseable(rows[j])) =>
                          DayNumber(rows[i]) <= DayNumber(rows[j])
                   /\ (\/ ~Parseable(rows[i]) /\ ~Parseable(rows[j])
                       \/ /\ Parseable(rows[i]) /\ Parseable(rows[j])
                          /\ DayNumber(rows[i]) = DayNumber(rows[j])) =>
                          ~TextLess(Get(rows[j], <<"t", "i", "m", "e">>), Get(rows[i], <<"t", "i", "m", "e">>))
        /\ SortKeys(transform_pricing_to_rows(Reversed(scraped_data))) = SortKeys(rows)

\* Lines given latest first, with a label of no calendar day in front: the
\* rows come out by day, the two times of one day as texts ("10:00 AM" before
\* "9:00 AM"), the row without a day last.
C25_Witness ==
    /\ "rows" \in called
    /\ scraped_data = << Line(<<"F", "R", "I", ",", " ", "2", "/", "3", "0", "/", "2", "0", "2", "6", " ", "8", ":", "0", "0", "P", "M">>, <<"O", "r", "c", "h">>, <<"$", "1", "0", "0">>),
                         Line(<<"M", "O", "N", ",", " ", "3", "/", "9", "/", "2", "0", "2", "6", " ", "9", ":", "0", "0", "A", "M">>, <<"O", "r", "c", "h">>, <<"$", "1", "0", "0">>),
                         Line(<<"M", "O", "N", ",", " ", "3", "/", "9", "/", "2", "0", "2", "6", " ", "1", "0", ":", "0", "0", "A", "M">>, <<"O", "r", "c", "h">>, <<"$", "1", "0", "0">>) >>
    /\ [i \in 1..Len(rows) |-> << Get(rows[i], <<"e", "v", "e", "n", "t", "_", "d", "a", "t", "e">>), Get(rows[i], <<"t", "i", "m", "e">>) >>]
           = << <<<<"M", "a", "r", " ", "9", ",", " ", "2", "0", "2", "6">>, <<"1", "0", ":", "0", "0", " ", "A", "M">>>>, <<<<"M", "a", "r", " ", "9", ",", " ", "2", "0", "2", "6">>, <<"9", ":", "0", "0", " ", "A", "M">>>>,
                <<<<"F", "e", "b", " ", "3", "0", ",", " ", "2", "0", "2", "6">>, <<"8", ":", "0", "0", " ", "P", "M">>>> >>

\* The hour of the day of h o'clock with the meridiem: 12 AM is 0, 12 PM is
\* 12, h PM is h + 12, h AM is h.
Hour24(h, meridiem) ==
    IF UpperText(Strip(meridiem)) = <<"P", "M">>
    THEN IF h = 12 THEN 12 ELSE h + 12
    ELSE IF h = 12 THEN 0 ELSE h

\* C26: the row of a label at h o'clock AM or PM has event_time "matinee" if
\* and only if the hour of the day is below 17, and "evening" otherwise; the
\* row of a label that does not match the pattern has "unknown".
C26_MatineeCutoff ==
    "rows" \in called =>
        /\ \A h \in 1..12 : \A minutes \in {<<"0", "0">>, <<"5", "9">>} : \A meridiem \in Meridiems :
               scraped_data = << Line(HourLabel(h, minutes, meridiem), <<"O", "r", "c", "h">>, <<"$", "1", "0", "0">>) >>
               => /\ Len(rows) = 1
                  /\ Get(rows[1], <<"e", "v", "e", "n", "t", "_", "t", "i", "m", "e">>) =
                         IF Hour24(h, meridiem) < 17 THEN <<"m", "a", "t", "i", "n", "e", "e">> ELSE <<"e", "v", "e", "n", "i", "n", "g">>
        /\ \A i \in 1..Len(scraped_data) :
               scraped_data[i].dateTime \in {ShowtimeB, ShowtimeE} =>
                   \E r \in 1..Len(rows) :
                       /\ Get(rows[r], <<"e", "v", "e", "n", "t", "_", "d", "a", "t", "e">>) = scraped_data[i].dateTime
                       /\ Get(rows[r], <<"e", "v", "e", "n", "t", "_", "t", "i", "m", "e">>) = <<"u", "n", "k", "n", "o", "w", "n">>

\* A label at 12:59 PM gave a matinee row.
C26_Witness ==
    /\ "rows" \in called
    /\ scraped_data = << Line(HourLabel(12, <<"5", "9">>, <<" ", "P", "M">>), <<"O", "r", "c", "h">>, <<"$", "1", "0", "0">>) >>
    /\ Get(rows[1], <<"e", "v", "e", "n", "t", "_", "t", "i", "m", "e">>) = <<"m", "a", "t", "i", "n", "e", "e">>
    /\ Get(rows[1], <<"t", "i", "m", "e">>) = <<"1", "2", ":", "5", "9", " ", "P", "M">>

\* The (section, normalised price) pairs observed in the lines of showtime dt.
ObservedPairs(dt) ==
    UNION { { ItemSections(scraped_data[i])[k] :
                k \in 1..Len(ItemSections(scraped_data[i])) } :
            i \in { j \in 1..Len(scraped_data) : scraped_data[j].dateTime = dt } }

\* The columns of a row after its three leading ones.
SectionColumns(row) == { row[c] : c \in 4..Len(row) }

\* C18 as stated: every returned row belongs to a showtime whose lines show
\* every section column of the row: the key is an observed section name and
\* the value is the normalised price of a line of that showtime.
C18_KeysAreObservedSections ==
    "rows" \in called =>
        \A i \in 1..Len(rows) :
            \E dt \in Showtimes :
                /\ SubSeq(rows[i], 1, 3) = RowHeader(dt)
                /\ \A col \in SectionColumns(rows[i]) :
                       \E pair \in ObservedPairs(dt) :
                           /\ col[1] = pair[1]
                           /\ \E other \in ObservedPairs(dt) : col[2] = other[2]

\* C18, amended: every returned row belongs to a showtime whose lines show
\* every section column of the row: the key is an observed section name, or
\* an observed section name followed by a counting suffix " (k)" with k >= 2,
\* and the value is the normalised price of a line of that showtime with that
\* section name.
C18_SectionColumns ==
    "rows" \in called =>
        \A i \in 1..Len(rows) :
            \E dt \in Showtimes :
                /\ SubSeq(rows[i], 1, 3) = RowHeader(dt)
                /\ \A col \in SectionColumns(rows[i]) :
                       \E pair \in ObservedPairs(dt) :
                           /\ col[2] = pair[2]
                           /\ \/ col[1] = pair[1]
                              \/ \E k \in 2..(Len(scraped_data) + 1) :
                                     col[1] = pair[1] \o <<" ", "(">> \o NatToText(k) \o <<")">>

\* Two showtimes with the same section: the row of the first has a suffixed
\* column for its second price, the row of the other has neither that price
\* nor that column.
C18_Witness ==
    /\ "rows" \in called
    /\ scraped_data = << Line(ShowtimeA, <<"O", "r", "c", "h">>, <<"$", "1", "0", "0">>),
                         Line(ShowtimeA, <<"O", "r", "c", "h">>, <<"$", "2", "0", "0">>),
                         Line(ShowtimeD, <<"B", "o", "x">>, <<"$", "1", ",", "0", "0", "0", ".", "0", "0">>) >>
    /\ Len(rows) = 2
    /\ \E i \in 1..2 : SectionColumns(rows[i]) = { <<<<"O", "r", "c", "h">>, <<"$", "1", "0", "0">>>>,
                                                   <<<<"O", "r", "c", "h", " ", "(", "2", ")">>, <<"$", "2", "0", "0">>>> }
    /\ \E i \in 1..2 : SectionColumns(rows[i]) = { <<<<"B", "o", "x">>, <<"$", "1", ",", "0", "0", "0">>>> }

(***************************************************************************)
(* PriceSpec: normalize_price_display applied to a price text.  The texts  *)
(* are all texts of up to MaxPriceLen characters over PriceAlphabet, and   *)
(* the three examples of the documentation.                                *)
(***************************************************************************)
MaxPriceLen == 5

PriceAlphabet == {"$", "5", "0", ".", " "}

RECURSIVE TextsOver(_, _)
TextsOver(alphabet, n) ==
    IF n = 0 THEN {<<>>}
    ELSE LET shorter == TextsOver(alphabet, n - 1) IN
         shorter \cup {Append(t, c) : t \in {u \in shorter : Len(u) = n - 1},
                                      c \in alphabet}

PriceTexts ==
    TextsOver(PriceAlphabet, MaxPriceLen)
        \cup {<<"$", "1", "6", "9", ".", "0", "0">>, <<"$", "1", "6", "9", ".", "5", "0">>, <<"$", "9", "9", ".", "0", "0", " ", "-", " ", "$", "2", "9", "9", ".", "0", "0">>}

PriceInit ==
    /\ IdleOrch
    /\ IdlePure
    /\ IdleBut({"price"})
    /\ price_text \in PriceTexts
    /\ price_display = <<>>

NormalizePrice ==
    /\ "normalize" \notin called
    /\ price_display' = normalize_price_display(price_text)
    /\ called' = called \cup {"normalize"}
    /\ UNCHANGED <<section_text, category, scraped_data, formatted_by_date, rows>>
    /\ UNCHANGED price_text
    /\ UNCHANGED <<orchVars, tierVars, catalogVars, extractVars, walkVars>>

PriceNext == NormalizePrice

PriceSpec == PriceInit /\ [][PriceNext]_vars

(***************************************************************************)
(* The claim about normalize_price_display.                                *)
(***************************************************************************)
\* The places of s that belong to a ".00" which directly follows a digit and
\* is not followed by a digit.
Dot00Places(s) ==
    {i \in 1..Len(s) :
        \E j \in {i - 2, i - 1, i} :
            /\ j >= 2
            /\ j + 2 <= Len(s)
            /\ s[j] = "." /\ s[j + 1] = "0" /\ s[j + 2] = "0"
            /\ s[j - 1] \in Digits
            /\ (j + 3 <= Len(s) => s[j + 3] \notin Digits)}

\* s without the characters at the given places, the others in their order.
RECURSIVE WithoutPlaces(_, _)
WithoutPlaces(s, places) ==
    IF s = <<>> THEN <<>>
    ELSE LET front == WithoutPlaces(SubSeq(s, 1, Len(s) - 1), places)
         IN  IF Len(s) \in places THEN front ELSE Append(front, s[Len(s)])

\* C11: normalize_price_display removes every ".00" that follows a digit and
\* is not followed by a digit, and leaves every other character of the input
\* untouched: the value is the input without the characters of those ".00".
C11_NormalizeOnlyDot00 ==
    "normalize" \in called =>
        price_display = WithoutPlaces(price_text, Dot00Places(price_text))

(***************************************************************************)
(* json.loads (src/app.py:462), for the JSON texts of this model: objects, *)
(* arrays, strings with the escapes \" \\ \/ \n \t \r \f, numbers and the  *)
(* literals true, false, null.  A value is a tagged tuple: <<"null">>,     *)
(* <<"bool", b>>, <<"num", text>>, <<"str", text>>, <<"arr", values>> or   *)
(* <<"obj", pairs>>, the pairs of a dict being <<key, value>> in insertion *)
(* order.  The result is [ok, value]; ok = FALSE is a JSONDecodeError.     *)
(***************************************************************************)
json_loads(s) ==
    LET ws == {" ", "\t", "\n", "\r"}
        Fail == [ok |-> FALSE, value |-> <<"null">>, next |-> 0]
        Done(v, n) == [ok |-> TRUE, value |-> v, next |-> n]
        Starts(i, w) ==
            i >= 1 /\ i + Len(w) - 1 <= Len(s) /\ SubSeq(s, i, i + Len(w) - 1) = w
        Unescaped == [c \in {"\"", "\\", "/", "n", "t", "r", "f"} |->
                        CASE c = "n" -> "\n" [] c = "t" -> "\t"
                          [] c = "r" -> "\r" [] c = "f" -> "\f" [] OTHER -> c]
        \* The string whose opening quote is at i - 1.
        RECURSIVE String(_, _)
        String(i, acc) ==
            IF i > Len(s) \/ s[i] \in {"\n", "\t", "\r", "\f"} THEN Fail
            ELSE IF s[i] = "\"" THEN Done(<<"str", acc>>, i + 1)
            ELSE IF s[i] = "\\"
                 THEN IF At(s, i + 1) \in DOMAIN Unescaped
                      THEN String(i + 2, Append(acc, Unescaped[s[i + 1]]))
                      ELSE Fail
            ELSE String(i + 1, Append(acc, s[i]))
        \* -?(0|[1-9]\d*)(\.\d+)?([eE][+-]?\d+)?
        Number(i) ==
            LET a == IF At(s, i) = "-" THEN i + 1 ELSE i
                b == IF At(s, a) = "0" THEN a + 1 ELSE SkipWhile(s, a, Digits)
                c == IF At(s, b) = "." /\ At(s, b + 1) \in Digits
                     THEN SkipWhile(s, b + 1, Digits) ELSE b
                d == IF At(s, c) \in {"e", "E"} THEN c + 1 ELSE c
                e == IF d > c /\ At(s, d) \in {"+", "-"} THEN d + 1 ELSE d
                f == IF d > c /\ At(s, e) \in Digits
                     THEN SkipWhile(s, e, Digits) ELSE c
            IN  IF b = a THEN Fail ELSE Done(<<"num", SubSeq(s, i, f - 1)>>, f)
        RECURSIVE Value(_), Elements(_, _), Members(_, _)
        Value(i0) ==
            LET i == SkipWhile(s, i0, ws) IN
            IF At(s, i) = "\"" THEN String(i + 1, <<>>)
            ELSE IF At(s, i) = "[" THEN
                 IF At(s, SkipWhile(s, i + 1, ws)) = "]"
                 THEN Done(<<"arr", <<>> >>, SkipWhile(s, i + 1, ws) + 1)
                 ELSE Elements(i + 1, <<>>)
            ELSE IF At(s, i) = "{" THEN
                 IF At(s, SkipWhile(s, i + 1, ws)) = "}"
                 THEN Done(<<"obj", <<>> >>, SkipWhile(s, i + 1, ws) + 1)
                 ELSE Members(i + 1, <<>>)
            ELSE IF Starts(i, <<"n", "u", "l", "l">>) THEN Done(<<"null">>, i + 4)
            ELSE IF Starts(i, <<"t", "r", "u", "e">>) THEN Done(<<"bool", TRUE>>, i + 4)
            ELSE IF Starts(i, <<"f", "a", "l", "s", "e">>) THEN Done(<<"bool", FALSE>>, i + 5)
            ELSE Number(i)
        Elements(i, acc) ==
            LET v == Value(i)
                j == SkipWhile(s, v.next, ws)
            IN  IF ~v.ok THEN Fail
                ELSE IF At(s, j) = "," THEN Elements(j + 1, Append(acc, v.value))
                ELSE IF At(s, j) = "]" THEN Done(<<"arr", Append(acc, v.value)>>, j + 1)
                ELSE Fail
        Members(i0, acc) ==
            LET i == SkipWhile(s, i0, ws)
                k == IF At(s, i) = "\"" THEN String(i + 1, <<>>) ELSE Fail
                c == SkipWhile(s, k.next, ws)
                v == IF k.ok /\ At(s, c) = ":" THEN Value(c + 1) ELSE Fail
                j == SkipWhile(s, v.next, ws)
                more == Put(acc, k.value[2], v.value)
            IN  IF ~v.ok THEN Fail
                ELSE IF At(s, j) = "," THEN Members(j + 1, more)
                ELSE IF At(s, j) = "}" THEN Done(<<"obj", more>>, j + 1)
                ELSE Fail
        top == Value(1)
    IN  IF top.ok /\ SkipWhile(s, top.next, ws) = Len(s) + 1
        THEN [ok |-> TRUE, value |-> top.value]
        ELSE [ok |-> FALSE, value |-> <<"null">>]

(***************************************************************************)
(* format_pricing_with_ai (src/app.py:369-506).  An optional value (None   *)
(* or a value) is a sequence of length 0 or 1.                             *)
(***************************************************************************)

\* The text that varies in the prompt (lines 377-407): one line
\* "<section>: <price>, <price>, ..." per section, prices sorted as texts.
price_text_of(data, given_scraped) ==
    LET exclude_keys == {<<"e", "v", "e", "n", "t", "_", "d", "a", "t", "e">>, <<"e", "v", "e", "n", "t", "_", "t", "i", "m", "e">>, <<"t", "i", "m", "e">>}
        RECURSIVE Flatten(_)
        Flatten(rs) ==
            IF rs = <<>> THEN <<>>
            ELSE SelectSeq(Head(rs), LAMBDA kv : kv[1] \notin exclude_keys)
                     \o Flatten(Tail(rs))
        pairs == IF given_scraped # <<>> THEN SectionPairs(given_scraped)
                 ELSE Flatten(data)
        RECURSIVE Descs(_)
        Descs(ps) ==
            IF ps = <<>> THEN <<>>
            ELSE LET before == Descs(SubSeq(ps, 1, Len(ps) - 1))
                     desc == ps[Len(ps)][1]
                 IN  IF \E i \in 1..Len(before) : before[i] = desc
                     THEN before
                     ELSE Append(before, desc)
        descs == Descs(pairs)
        RECURSIVE Sorted(_)
        Sorted(ps) ==
            IF ps = {} THEN <<>>
            ELSE LET least == CHOOSE x \in ps : \A y \in ps \ {x} : TextLess(x, y)
                 IN  <<least>> \o Sorted(ps \ {least})
        LineOf(desc) ==
            desc \o <<":", " ">>
                 \o Join(Sorted({pairs[i][2] : i \in {j \in 1..Len(pairs) : pairs[j][1] = desc}}),
                         <<",", " ">>)
    IN  Join([i \in 1..Len(descs) |-> LineOf(descs[i])], <<"\n">>)

\* Lines 457-459: a leading ```jso, ```json and the whitespace after it, and
\* a trailing ``` with the whitespace before it, are removed from a response
\* that starts with ```.
clean_response(ai_response) ==
    LET fence == <<"<grave>", "<grave>", "<grave>">>
        n == Len(ai_response)
        StartsWith(w) == Len(w) <= n /\ SubSeq(ai_response, 1, Len(w)) = w
        i == IF At(ai_response, 7) = "n" THEN 8 ELSE 7
        a == IF StartsWith(<<"<grave>", "<grave>", "<grave>", "j", "s", "o">>)
             THEN SubSeq(ai_response, SkipWhile(ai_response, i, WhiteSpace), n)
             ELSE ai_response
        b == IF Len(a) >= 3 /\ SubSeq(a, Len(a) - 2, Len(a)) = fence
             THEN RStrip(SubSeq(a, 1, Len(a) - 3))
             ELSE a
    IN  IF StartsWith(fence) THEN b ELSE ai_response

\* int(round(m / d)) for a float that is the exact quotient: round half to even.
RoundHalfEven(m, d) ==
    LET q == m \div d
        r == m % d
    IN  IF 2 * r > d THEN q + 1
        ELSE IF 2 * r < d THEN q
        ELSE IF q % 2 = 0 THEN q ELSE q + 1

\* Lines 469-472, for the parsed prices low and high: (price1, price2).
TierBounds_markup_both(low, high) ==
    << RoundHalfEven(low[1] * 104, Pow10(low[2]) * 100),
       RoundHalfEven(high[1] * 104, Pow10(high[2]) * 100) >>

TierBounds(low, high) ==
    << RoundHalfEven(low[1], Pow10(low[2])),
       RoundHalfEven(high[1] * 104, Pow10(high[2]) * 100) >>

\* The loop of lines 465-473 over the items of pricing_tiers, a JSON value:
\* [raised, tiers], raised when a step of the loop raises an exception.
process_tiers(pricing_tiers) ==
    LET Truthy(v) ==
            CASE v[1] = "null" -> FALSE
              [] v[1] = "bool" -> v[2]
              [] v[1] = "num" ->
                    \E k \in 1..Len(v[2]) :
                        /\ v[2][k] \in Digits \ {"0"}
                        /\ \A j \in 1..k : v[2][j] \notin {"e", "E"}
              [] OTHER -> v[2] # <<>>
        \* len(prices) raises for a number or a boolean.
        HasLen(v) == v[1] \in {"str", "arr", "obj"}
        \* prices[0] and prices[1] as arguments of extract_price_value, which
        \* raises for anything but a str; indexing a dict by 0 raises.
        Usable(v) ==
            \/ v[1] = "str"
            \/ v[1] = "arr" /\ v[2][1][1] = "str" /\ v[2][2][1] = "str"
        Item(v, k) == IF v[1] = "str" THEN <<v[2][k]>> ELSE v[2][k][2]
        RECURSIVE Loop(_, _)
        Loop(items, acc) ==
            IF items = <<>> THEN [raised |-> FALSE, tiers |-> acc]
            ELSE LET tier == Head(items)[1]
                     prices == Head(items)[2]
                 IN  IF ~Truthy(prices) THEN Loop(Tail(items), acc)
                     ELSE IF ~HasLen(prices) THEN [raised |-> TRUE, tiers |-> <<>>]
                     ELSE IF Len(prices[2]) < 2 THEN Loop(Tail(items), acc)
                     ELSE IF ~Usable(prices) THEN [raised |-> TRUE, tiers |-> <<>>]
                     ELSE Loop(Tail(items),
                               Put(acc, tier,
                                   TierBounds(extract_price_value(Item(prices, 1)),
                                              extract_price_value(Item(prices, 2)))))
    IN  IF pricing_tiers[1] # "obj" THEN [raised |-> TRUE, tiers |-> <<>>]
        ELSE Loop(pricing_tiers[2], <<>>)

tier_order ==
    << <<"P", "r", "e", "m", "i", "u", "m">>, <<"M", "i", "d", "P", "r", "e", "m", "i", "u", "m">>, <<"O", "r", "c", "h", "e", "s", "t", "r", "a">>, <<"F", "r", "o", "n", "t", "M", "e", "z", "z", "a", "n", "i", "n", "e">>, <<"R", "e", "a", "r", "M", "e", "z", "z", "a", "n", "i", "n", "e">> >>

\* Lines 482-496: the re-emitted row.
new_row_with_sections(row, processed_tiers) ==
    row \o [tier_num \in 1..Len(tier_order) |->
               << <<"r", "e", "g", "_", "t", "i", "e", "r", "_">> \o NatToText(tier_num), <<"n", "u", "l", "l">> >>]

new_row(row, processed_tiers) ==
    << <<<<"e", "v", "e", "n", "t", "_", "d", "a", "t", "e">>, Get(row, <<"e", "v", "e", "n", "t", "_", "d", "a", "t", "e">>)>>,
       <<<<"e", "v", "e", "n", "t", "_", "t", "i", "m", "e">>, Get(row, <<"e", "v", "e", "n", "t", "_", "t", "i", "m", "e">>)>>,
       <<<<"t", "i", "m", "e">>, Get(row, <<"t", "i", "m", "e">>)>> >>
    \o [tier_num \in 1..Len(tier_order) |->
           << <<"r", "e", "g", "_", "t", "i", "e", "r", "_">> \o NatToText(tier_num),
              IF HasKey(processed_tiers, tier_order[tier_num])
              THEN <<"$">> \o NatToText(Get(processed_tiers, tier_order[tier_num])[1])
                        \o <<" ", "-", " ", "$">>
                        \o NatToText(Get(processed_tiers, tier_order[tier_num])[2])
              ELSE <<"n", "u", "l", "l">> >>]

\* The call of the collaborator: [raises, content]; content is None or a text.
\* The value: the returned triple, whether an exception left the function
\* instead, and the prompts sent.
format_pricing_with_ai_uncaught(data, given_scraped, collab) ==
    [raised |-> data # <<>>, result_df |-> <<>>, processed_tiers |-> <<>>,
     error |-> <<>>,
     prompts |-> IF data = <<>> THEN <<>> ELSE <<price_text_of(data, given_scraped)>>]

format_pricing_with_ai(data, given_scraped, collab) ==
    LET ErrNoData == "No data to process"
        ErrNotJson == "Failed to parse AI response as JSON: <e>"
        ErrCalling == "Error calling OpenAI: <e>"
        Error(msg, sent) ==
            [raised |-> FALSE, result_df |-> <<>>, processed_tiers |-> <<>>,
             error |-> <<msg>>, prompts |-> sent]
        \* Lines 475-501, with the outcome of the loop of lines 465-473.
        Emit(processed, sent) ==
            IF processed.raised THEN Error(ErrCalling, sent)
            ELSE [raised |-> FALSE,
                  result_df |-> << [i \in 1..Len(data) |->
                                       new_row(data[i], processed.tiers)] >>,
                  processed_tiers |-> <<processed.tiers>>,
                  error |-> <<>>,
                  prompts |-> sent]
        \* Lines 462-501, with the outcome of json.loads.
        Parsed(parsed, sent) ==
            IF ~parsed.ok THEN Error(ErrNotJson, sent)
            ELSE Emit(process_tiers(parsed.value), sent)
        \* Lines 445-501, with the prompt sent.
        Called(sent) ==
            IF collab.raises \/ collab.content = <<>> THEN Error(ErrCalling, sent)
            ELSE Parsed(json_loads(clean_response(Strip(collab.content[1]))), sent)
    IN  IF data = <<>> THEN Error(ErrNoData, <<>>)
        ELSE Called(<<price_text_of(data, given_scraped)>>)

(***************************************************************************)
(* TierSpec: format_pricing_with_ai applied to the rows of up to           *)
(* MaxTierLines scraped lines, with or without the raw lines, and a        *)
(* collaborator that raises, answers nothing, or answers one of the texts  *)
(* below.                                                                  *)
(***************************************************************************)
MaxTierLines == 2

TierLines(k) ==
    LET pool == << Line(ShowtimeA, <<"O", "r", "c", "h", " ", "/", " ", "M", "e", "z", "z">>, <<"$", "2", "0", "0", ".", "0", "0">>),
                   Line(ShowtimeC, <<"P", "r", "e", "m", "i", "u", "m">>, <<"$", "3", "0", "0">>),
                   Line(ShowtimeA, <<"O", "r", "c", "h">>, <<"$", "1", "0", "0">>),
                   Line(ShowtimeE, <<"B", "o", "x">>, <<"$", "5", "0">>) >>
    IN  [i \in 1..k |-> pool[((i - 1) % Len(pool)) + 1]]

\* A JSON object text with the given members; an empty member is left out.
ObjectText(members) ==
    <<"{">> \o Join(SelectSeq(members, LAMBDA x : x # <<>>), <<",", " ">>) \o <<"}">>

Member(name, value) ==
    IF value = <<>> THEN <<>> ELSE <<"\"">> \o name \o <<"\"", ":", " ">> \o value

FullObject ==
    ObjectText(<< Member(tier_order[1], <<"[", "\"", "$", "2", "0", "0", "\"", ",", " ", "\"", "$", "3", "0", "0", "\"", "]">>),
                  Member(tier_order[2], <<"[", "\"", "$", "1", ",", "2", "5", "0", ".", "0", "0", "\"", ",", " ", "\"", "$", "1", ",", "3", "0", "0", "\"", "]">>),
                  Member(tier_order[3], <<"[", "\"", "$", "1", "0", "0", "\"", ",", " ", "\"", "$", "1", "5", "0", "\"", "]">>),
                  Member(tier_order[4], <<"[", "\"", "$", "8", "0", ".", "5", "0", "\"", ",", " ", "\"", "$", "9", "9", ".", "9", "9", "\"", "]">>),
                  Member(tier_order[5], <<"[", "\"", "$", "4", "9", ".", "4", "9", "\"", ",", " ", "\"", "$", "6", ".", "2", "5", "\"", "]">>) >>)

\* Objects in which each tier is a pair, null, left out or too short.
TierObjects ==
    { ObjectText(<< Member(tier_order[1], a), Member(tier_order[2], b),
                    Member(tier_order[3], c), Member(tier_order[4], d),
                    Member(tier_order[5], <<"[", "\"", "$", "4", "9", ".", "4", "9", "\"", ",", " ", "\"", "$", "6", ".", "2", "5", "\"", "]">>) >>) :
        a \in {<<"[", "\"", "$", "2", "0", "0", "\"", ",", " ", "\"", "$", "3", "0", "0", "\"", "]">>, <<>>, <<"n", "u", "l", "l">>},
        b \in {<<"[", "\"", "$", "1", ",", "2", "5", "0", ".", "0", "0", "\"", ",", " ", "\"", "$", "1", ",", "3", "0", "0", "\"", "]">>, <<>>, <<"n", "u", "l", "l">>, <<"[", "n", "u", "l", "l", ",", " ", "n", "u", "l", "l", "]">>},
        c \in {<<"[", "\"", "$", "1", "0", "0", "\"", ",", " ", "\"", "$", "1", "5", "0", "\"", "]">>, <<>>},
        d \in {<<"[", "\"", "$", "8", "0", ".", "5", "0", "\"", ",", " ", "\"", "$", "9", "9", ".", "9", "9", "\"", "]">>, <<"[", "\"", "$", "8", "0", ".", "5", "0", "\"", "]">>} }

\* Valid JSON that is not a usable mapping, or holds more than the five tiers.
OddJson ==
    { <<"[", "1", "]">>, <<"n", "u", "l", "l">>, <<"{", "\"", "P", "r", "e", "m", "i", "u", "m", "\"", ":", " ", "[", "1", "0", "0", ",", " ", "1", "5", "0", "]", "}">>, <<"{", "\"", "P", "r", "e", "m", "i", "u", "m", "\"", ":", " ", "\"", "$", "5", "\"", "}">>,
      <<"{", "\"", "O", "r", "c", "h", "e", "s", "t", "r", "a", "\"", ":", " ", "7", "}">>,
      ObjectText(<< Member(<<"B", "a", "l", "c", "o", "n", "y">>, <<"[", "\"", "$", "3", "0", "\"", ",", " ", "\"", "$", "4", "0", "\"", "]">>),
                    Member(tier_order[3], <<"[", "\"", "$", "1", "0", "0", "\"", ",", " ", "\"", "$", "1", "5", "0", "\"", "]">>) >>) }

\* Valid JSON inside a markdown code fence.
FencedJson ==
    { <<"<grave>", "<grave>", "<grave>", "j", "s", "o", "n", "\n">> \o FullObject \o <<"\n", "<grave>", "<grave>", "<grave>">>, <<"<grave>", "<grave>", "<grave>", "j", "s", "o", "n", "{", "}", "<grave>", "<grave>", "<grave>">> }

\* Texts that are not JSON, with or without a fence.
NotJson ==
    { <<>>, <<"S", "o", "r", "r", "y", ",", " ", "I", " ", "c", "a", "n", "n", "o", "t", " ", "h", "e", "l", "p", " ", "w", "i", "t", "h", " ", "t", "h", "a", "t", ".">>, <<"{", "\"", "P", "r", "e", "m", "i", "u", "m", "\"", ":", " ", "[", "\"", "$", "2", "0", "0", "\"", ",", " ", "\"", "$", "3", "0", "0", "\"", "]">>,
      <<"{", "'", "P", "r", "e", "m", "i", "u", "m", "'", ":", " ", "n", "u", "l", "l", "}">>, <<"H", "e", "r", "e", " ", "y", "o", "u", " ", "g", "o", ":", " ", "{", "}">>, <<"<grave>", "<grave>", "<grave>", "j", "s", "o", "n", "\n", "S", "o", "r", "r", "y", "\n", "<grave>", "<grave>", "<grave>">>,
      <<"<grave>", "<grave>", "<grave>", "j", "s", "o", "n", "\n", "{", "\"", "P", "r", "e", "m", "i", "u", "m", "\"", ":", " ", "n", "u", "l", "l", "\n", "<grave>", "<grave>", "<grave>">> }

\* A fence without "json" is not removed at the front.
PlainFenced == { <<"<grave>", "<grave>", "<grave>", "\n">> \o FullObject \o <<"\n", "<grave>", "<grave>", "<grave>">> }

Collaborators ==
    { [raises |-> TRUE, content |-> <<>>], [raises |-> FALSE, content |-> <<>>] }
    \cup { [raises |-> FALSE, content |-> <<t>>] :
             t \in TierObjects \cup OddJson \cup FencedJson \cup NotJson \cup PlainFenced }

TierInit ==
    /\ IdleOrch
    /\ IdleBut({"tier"})
    /\ section_text = <<>>
    /\ category = <<>>
    /\ formatted_by_date = <<>>
    /\ rows = <<>>
    /\ called = {}
    /\ \E k \in 0..MaxTierLines : \E given \in BOOLEAN :
           /\ transformed_data = transform_pricing_to_rows(TierLines(k))
           /\ scraped_data = IF given THEN TierLines(k) ELSE <<>>
    /\ collaborator \in Collaborators
    /\ prompt = <<>>
    /\ ai_result = <<>>

FormatWithAi ==
    /\ "ai" \notin called
    /\ LET Return(r) ==
               /\ ai_result' = << [raised |-> r.raised, result_df |-> r.result_df,
                                   processed_tiers |-> r.processed_tiers,
                                   error |-> r.error] >>
               /\ prompt' = r.prompts
       IN  Return(format_pricing_with_ai(transformed_data, scraped_data, collaborator))
    /\ called' = called \cup {"ai"}
    /\ UNCHANGED <<section_text, category, scraped_data, formatted_by_date, rows>>
    /\ UNCHANGED <<transformed_data, collaborator>>
    /\ UNCHANGED <<orchVars, priceVars, catalogVars, extractVars, walkVars>>

TierNext == FormatWithAi

TierSpec == TierInit /\ [][TierNext]_vars

\* The run of format_pricing_with_ai has returned a table.
Classified ==
    /\ "ai" \in called
    /\ ~ai_result[1].raised
    /\ ai_result[1].error = <<>>
    /\ ai_result[1].result_df # <<>>

\* The run has returned (no table, no tiers, a non-empty message).
FailureValue ==
    /\ "ai" \in called
    /\ ~ai_result[1].raised
    /\ ai_result[1].result_df = <<>>
    /\ ai_result[1].processed_tiers = <<>>
    /\ ai_result[1].error # <<>>
    /\ ai_result[1].error[1] # ""

\* p is an integer nearest to m / d.
NearestInt(p, m, d) == 2 * (IF p * d >= m THEN p * d - m ELSE m - p * d) <= d

RangeText(low, high) == <<"$">> \o NatToText(low) \o <<" ", "-", " ", "$">> \o NatToText(high)

\* C12: whenever the classification succeeds, every tier that the response
\* gives as a pair of price texts [low, high] is recorded with a low bound that
\* is an integer nearest to the parsed low price and a high bound that is an
\* integer nearest to 1.04 times the parsed high price, and every row shows it
\* in its tier column as "$low - $high": the markup is on the high bound only,
\* once.
C12_TierMarkup ==
    Classified =>
        LET response == json_loads(clean_response(Strip(collaborator.content[1]))).value
            tiers == ai_result[1].processed_tiers[1]
            table == ai_result[1].result_df[1]
        IN  \A m \in 1..Len(response[2]) :
                LET tier == response[2][m][1]
                    v == response[2][m][2]
                IN  (/\ v[1] = "arr"
                     /\ Len(v[2]) >= 2
                     /\ v[2][1][1] = "str"
                     /\ v[2][2][1] = "str")
                    =>
                    LET low == extract_price_value(v[2][1][2])
                        high == extract_price_value(v[2][2][2])
                        p == Get(tiers, tier)
                    IN  /\ HasKey(tiers, tier)
                        /\ NearestInt(p[1], low[1], Pow10(low[2]))
                        /\ NearestInt(p[2], high[1] * 104, Pow10(high[2]) * 100)
                        /\ \A n \in 1..Len(tier_order) : \A i \in 1..Len(table) :
                               tier_order[n] = tier =>
                                   Get(table[i], <<"r", "e", "g", "_", "t", "i", "e", "r", "_">> \o NatToText(n))
                                       = RangeText(p[1], p[2])

\* An Orchestra range of [$100, $150] came out as "$100 - $156", beside a
\* range whose marked-up high bound, 6.5, lies halfway between two integers.
C12_Witness ==
    /\ Classified
    /\ collaborator.content = <<FullObject>>
    /\ Get(ai_result[1].result_df[1][1], <<"r", "e", "g", "_", "t", "i", "e", "r", "_", "3">>) = <<"$", "1", "0", "0", " ", "-", " ", "$", "1", "5", "6">>
    /\ Get(ai_result[1].result_df[1][1], <<"r", "e", "g", "_", "t", "i", "e", "r", "_", "5">>) = <<"$", "4", "9", " ", "-", " ", "$", "6">>
    /\ Get(ai_result[1].result_df[1][1], <<"r", "e", "g", "_", "t", "i", "e", "r", "_", "2">>) = <<"$", "1", "2", "5", "0", " ", "-", " ", "$", "1", "3", "5", "2">>

\* C13: on success the table has one row per input row, in the same order;
\* each row has exactly the columns event_date, event_time, time and
\* reg_tier_1..5, the first three copied from the input row, and the tier
\* columns, in the order Premium, MidPremium, Orchestra, FrontMezzanine,
\* RearMezzanine, hold "$low - $high" for a classified tier and "null" for an
\* absent one; no section column of the input row is carried over.
C13_TierReemission ==
    Classified =>
        LET tiers == ai_result[1].processed_tiers[1]
            table == ai_result[1].result_df[1]
            names == << <<"P", "r", "e", "m", "i", "u", "m">>, <<"M", "i", "d", "P", "r", "e", "m", "i", "u", "m">>, <<"O", "r", "c", "h", "e", "s", "t", "r", "a">>,
                        <<"F", "r", "o", "n", "t", "M", "e", "z", "z", "a", "n", "i", "n", "e">>, <<"R", "e", "a", "r", "M", "e", "z", "z", "a", "n", "i", "n", "e">> >>
        IN  /\ Len(table) = Len(transformed_data)
            /\ \A i \in 1..Len(table) :
                   /\ [k \in 1..Len(table[i]) |-> table[i][k][1]]
                          = << <<"e", "v", "e", "n", "t", "_", "d", "a", "t", "e">>, <<"e", "v", "e", "n", "t", "_", "t", "i", "m", "e">>, <<"t", "i", "m", "e">>, <<"r", "e", "g", "_", "t", "i", "e", "r", "_", "1">>,
                               <<"r", "e", "g", "_", "t", "i", "e", "r", "_", "2">>, <<"r", "e", "g", "_", "t", "i", "e", "r", "_", "3">>, <<"r", "e", "g", "_", "t", "i", "e", "r", "_", "4">>,
                               <<"r", "e", "g", "_", "t", "i", "e", "r", "_", "5">> >>
                   /\ \A k \in 1..3 :
                          table[i][k][2] = Get(transformed_data[i], table[i][k][1])
                   /\ \A n \in 1..5 :
                          table[i][3 + n][2] =
                              IF HasKey(tiers, names[n])
                              THEN RangeText(Get(tiers, names[n])[1],
                                             Get(tiers, names[n])[2])
                              ELSE <<"n", "u", "l", "l">>

\* Two rows with section columns were re-emitted, one tier classified and one
\* absent.
C13_Witness ==
    /\ Classified
    /\ Len(transformed_data) = 2
    /\ Len(transformed_data[1]) > 3
    /\ Len(ai_result[1].result_df[1]) = 2
    /\ Get(ai_result[1].result_df[1][2], <<"r", "e", "g", "_", "t", "i", "e", "r", "_", "2">>) = <<"n", "u", "l", "l">>
    /\ Get(ai_result[1].result_df[1][2], <<"r", "e", "g", "_", "t", "i", "e", "r", "_", "5">>) # <<"n", "u", "l", "l">>

C15_RequiredTiers ==
    Classified =>
        \A i \in 1..Len(ai_result[1].result_df[1]) : \A n \in {1, 3, 4, 5} :
            Get(ai_result[1].result_df[1][i], <<"r", "e", "g", "_", "t", "i", "e", "r", "_">> \o NatToText(n)) # <<"n", "u", "l", "l">>

(***************************************************************************)
(* get_broadway_shows (src/scrape.py:11-146).  listing_html is what the    *)
(* browser meets:                                                            *)
(*   goto_raises   page.goto raises                                        *)
(*   modal         the terms modal is found and clicked                    *)
(*   found         "main": the first pattern matches the page source,      *)
(*                 "alt": an alternative pattern does, "none": no pattern  *)
(*   json_ok       json.loads accepts the matched text                     *)
(*   entries       the parsed array, a sequence of JSON values             *)
(* The value is the returned pair [shows, debug]; a debug message is       *)
(* <<kind>> followed by the JSON values formatted into it.                 *)
(***************************************************************************)
base_url == <<"h", "t", "t", "p", "s", ":", "/", "/", "w", "w", "w", ".", "b", "r", "o", "a", "d", "w", "a", "y", "i", "n", "b", "o", "u", "n", "d", ".", "c", "o", "m">>

get_broadway_shows(listing_html) ==
    LET Truthy(v) ==
            CASE v[1] = "null" -> FALSE
              [] v[1] = "bool" -> v[2]
              [] v[1] = "num" ->
                    \E k \in 1..Len(v[2]) :
                        /\ v[2][k] \in Digits \ {"0"}
                        /\ \A j \in 1..k : v[2][j] \notin {"e", "E"}
              [] OTHER -> v[2] # <<>>
        Text(t) == <<"str", t>>
        \* show.get(key, default) of a dict.
        GetOr(show, key, default) ==
            IF HasKey(show[2], key) THEN Get(show[2], key) ELSE default
        \* a or b or c or d
        FirstTruthy(vs) ==
            IF \E i \in 1..Len(vs) : Truthy(vs[i])
            THEN vs[CHOOSE i \in 1..Len(vs) :
                        Truthy(vs[i]) /\ \A j \in 1..(i - 1) : ~Truthy(vs[j])]
            ELSE vs[Len(vs)]
        Slug(show) ==
            FirstTruthy(<< GetOr(show, <<"U", "r", "l">>, <<"null">>),
                           GetOr(show, <<"S", "h", "o", "w", "U", "r", "l", "E", "N">>, <<"null">>),
                           GetOr(show, <<"u", "r", "l">>, <<"null">>),
                           GetOr(show, <<"s", "l", "u", "g">>, <<"null">>) >>)
        Title(show) ==
            FirstTruthy(<< GetOr(show, <<"S", "h", "o", "w", "N", "a", "m", "e">>, <<"null">>),
                           GetOr(show, <<"S", "o", "r", "t", "N", "a", "m", "e">>, <<"null">>),
                           GetOr(show, <<"t", "i", "t", "l", "e">>, <<"null">>),
                           GetOr(show, <<"n", "a", "m", "e">>, <<"null">>) >>)
        \* True == False, 0 == False: a boolean or a number that is not truthy.
        EqualsFalse(v) == v[1] \in {"bool", "num"} /\ ~Truthy(v)
        FullUrl(slug) ==
            base_url \o (IF At(slug, 1) = "/" THEN slug ELSE <<"/">> \o slug)
        \* One turn of the loop of lines 100-129: the exception it raises, the
        \* listing it appends and the message it appends.
        Turn(show) ==
            IF show[1] # "obj"
            THEN [raises |-> TRUE, listing |-> <<>>, message |-> <<>>]
            ELSE IF ~EqualsFalse(GetOr(show, <<"S", "h", "o", "w", "L", "e", "t", "U", "s", "K", "n", "o", "w">>, <<"bool", TRUE>>))
            THEN [raises |-> FALSE, listing |-> <<>>,
                  message |-> << << "Skipped show (no pricing yet)",
                                    FirstTruthy(<<Title(show), Text(<<"U", "n", "k", "n", "o", "w", "n">>)>>) >> >>]
            ELSE IF ~(Truthy(Slug(show)) /\ Truthy(Title(show)))
            THEN [raises |-> FALSE, listing |-> <<>>, message |-> <<>>]
            ELSE IF Slug(show)[1] # "str" \/ Title(show)[1] # "str"
            THEN [raises |-> TRUE, listing |-> <<>>, message |-> <<>>]
            ELSE LET listing ==
                         [title |-> Strip(Title(show)[2]),
                          url |-> FullUrl(Slug(show)[2]),
                          firstPerformance |->
                              GetOr(show, <<"F", "i", "r", "s", "t", "P", "e", "r", "f", "o", "r", "m", "a", "n", "c", "e">>, Text(<<>>)),
                          onSaleThrough |->
                              GetOr(show, <<"O", "n", "S", "a", "l", "e", "T", "h", "r", "o", "u", "g", "h">>, Text(<<>>))]
                 IN  [raises |-> FALSE, listing |-> <<listing>>,
                      message |-> << << "Found show with pricing",
                                        Text(listing.title), Text(listing.url),
                                        listing.firstPerformance,
                                        listing.onSaleThrough >> >>]
        Failed(acc) ==
            [shows |-> acc.shows,
             debug |-> Append(acc.debug, <<"Error scraping Broadway Inbound">>)]
        RECURSIVE Loop(_, _)
        Loop(todo, acc) ==
            IF todo = <<>>
            THEN [shows |-> acc.shows,
                  debug |-> Append(acc.debug,
                                   << "Found shows via inline JSON",
                                      <<"num", NatToText(Len(acc.shows))>> >>)]
            ELSE LET t == Turn(Head(todo))
                 IN  IF t.raises THEN Failed(acc)
                     ELSE Loop(Tail(todo),
                               [shows |-> acc.shows \o t.listing,
                                debug |-> acc.debug \o t.message])
        opened ==
            << <<"Navigating">>, <<"Looking for terms modal...">> >>
            \o (IF listing_html.modal
                THEN << <<"Found terms modal, clicking 'I Understand'...">>,
                        <<"Terms modal dismissed">> >>
                ELSE << <<"No terms modal found or couldn't click">> >>)
            \o << <<"Extracting shows from page HTML...">> >>
            \o (CASE listing_html.found = "main" -> <<>>
                  [] listing_html.found = "alt" ->
                        << <<"Couldn't find the shows array in the page source">>,
                           <<"Found shows using alternative pattern">> >>
                  [] OTHER ->
                        << <<"Couldn't find the shows array in the page source">> >>)
        matched == Append(opened, <<"Found shows array in page source">>)
    IN  IF listing_html.goto_raises
        THEN Failed([shows |-> <<>>, debug |-> << <<"Navigating">> >>])
        ELSE IF listing_html.found = "none"
        THEN [shows |-> <<>>,
              debug |-> Append(opened, <<"Could not find shows array with any pattern">>)]
        ELSE IF ~listing_html.json_ok
        THEN Failed([shows |-> <<>>, debug |-> matched])
        ELSE Loop(listing_html.entries,
                  [shows |-> <<>>,
                   debug |-> Append(matched,
                                    << "Parsed shows from JSON",
                                       <<"num", NatToText(Len(listing_html.entries))>> >>)])

(***************************************************************************)
(* CatalogSpec: one call of get_broadway_shows on a listing page whose     *)
(* embedded array holds up to MaxEntries entries.  The patterns of lines   *)
(* 70-79 match from "[{" to "}]": a matched array starts and ends with an  *)
(* object.                                                                 *)
(***************************************************************************)
MaxEntries == 3

ShowEntry(members) == <<"obj", SelectSeq(members, LAMBDA kv : kv # <<>>)>>

ShowEntries ==
    LET published == <<<<"S", "h", "o", "w", "L", "e", "t", "U", "s", "K", "n", "o", "w">>, <<"bool", FALSE>> >>
        Str(key, t) == <<key, <<"str", t>> >>
    IN  << ShowEntry(<< published, Str(<<"U", "r", "l">>, <<"/", "s", "h", "o", "w", "s", "/", "a", "l", "a", "d", "d", "i", "n">>),
                        Str(<<"S", "h", "o", "w", "N", "a", "m", "e">>, <<" ", "A", "l", "a", "d", "d", "i", "n", " ">>),
                        Str(<<"F", "i", "r", "s", "t", "P", "e", "r", "f", "o", "r", "m", "a", "n", "c", "e">>, <<"3", "/", "2", "0", "/", "2", "0", "1", "4">>),
                        Str(<<"O", "n", "S", "a", "l", "e", "T", "h", "r", "o", "u", "g", "h">>, <<"1", "/", "3", "/", "2", "0", "2", "7">>) >>),
           ShowEntry(<< Str(<<"U", "r", "l">>, <<>>), Str(<<"S", "h", "o", "w", "U", "r", "l", "E", "N">>, <<"s", "h", "o", "w", "s", "/", "w", "i", "c", "k", "e", "d">>),
                        <<<<"S", "h", "o", "w", "N", "a", "m", "e">>, <<"null">> >>, Str(<<"S", "o", "r", "t", "N", "a", "m", "e">>, <<"W", "i", "c", "k", "e", "d">>),
                        published >>),
           ShowEntry(<< <<<<"S", "h", "o", "w", "L", "e", "t", "U", "s", "K", "n", "o", "w">>, <<"bool", TRUE>> >>,
                        Str(<<"U", "r", "l">>, <<"/", "s", "h", "o", "w", "s", "/", "s", "o", "o", "n">>), Str(<<"S", "h", "o", "w", "N", "a", "m", "e">>, <<"S", "o", "o", "n">>) >>),
           ShowEntry(<< Str(<<"U", "r", "l">>, <<"/", "s", "h", "o", "w", "s", "/", "u", "n", "f", "l", "a", "g", "g", "e", "d">>),
                        Str(<<"S", "h", "o", "w", "N", "a", "m", "e">>, <<"U", "n", "f", "l", "a", "g", "g", "e", "d">>) >>),
           ShowEntry(<< <<<<"S", "h", "o", "w", "L", "e", "t", "U", "s", "K", "n", "o", "w">>, <<"num", <<"0">>>> >>,
                        Str(<<"U", "r", "l">>, <<"/", "s", "h", "o", "w", "s", "/", "z", "e", "r", "o">>), Str(<<"S", "h", "o", "w", "N", "a", "m", "e">>, <<"Z", "e", "r", "o">>) >>),
           ShowEntry(<< published, Str(<<"U", "r", "l">>, <<"/", "s", "h", "o", "w", "s", "/", "b", "l", "a", "n", "k">>),
                        Str(<<"S", "h", "o", "w", "N", "a", "m", "e">>, <<" ", " ">>) >>),
           ShowEntry(<< published, Str(<<"U", "r", "l">>, <<"/", "s", "h", "o", "w", "s", "/", "u", "n", "t", "i", "t", "l", "e", "d">>) >>),
           <<"num", <<"5">>>>,
           ShowEntry(<< published, <<<<"U", "r", "l">>, <<"num", <<"7">>>> >>,
                        Str(<<"S", "h", "o", "w", "N", "a", "m", "e">>, <<"S", "e", "v", "e", "n">>) >>),
           ShowEntry(<< published, Str(<<"U", "r", "l">>, <<"/", "s", "h", "o", "w", "s", "/", "e", "i", "g", "h", "t">>),
                        <<<<"S", "h", "o", "w", "N", "a", "m", "e">>, <<"num", <<"8">>>> >> >>) >>

ListingPages ==
    LET loaded == [goto_raises |-> FALSE, modal |-> TRUE, found |-> "main",
                   json_ok |-> TRUE, entries |-> <<>>]
        arrays == { es \in UNION { [1..n -> 1..Len(ShowEntries)] : n \in 1..MaxEntries } :
                      /\ ShowEntries[es[1]][1] = "obj"
                      /\ ShowEntries[es[Len(es)]][1] = "obj" }
    IN  { [loaded EXCEPT !.goto_raises = TRUE],
          [loaded EXCEPT !.found = "none"],
          [loaded EXCEPT !.found = "none", !.modal = FALSE],
          [loaded EXCEPT !.json_ok = FALSE],
          [loaded EXCEPT !.found = "alt", !.json_ok = FALSE] }
        \cup { [loaded EXCEPT !.entries = [i \in 1..Len(es) |-> ShowEntries[es[i]]],
                              !.modal = m,
                              !.found = IF Len(es) = 1 THEN "alt" ELSE "main"] :
                 es \in arrays, m \in BOOLEAN }

CatalogInit ==
    /\ IdleOrch
    /\ IdlePure
    /\ IdleBut({"catalog"})
    /\ listing_page \in ListingPages
    /\ shows = <<>>
    /\ debug = <<>>

LoadCatalog ==
    /\ "catalog" \notin called
    /\ LET Return(r) == shows' = r.shows /\ debug' = r.debug
       IN  Return(get_broadway_shows(listing_page))
    /\ called' = called \cup {"catalog"}
    /\ UNCHANGED <<section_text, category, scraped_data, formatted_by_date, rows>>
    /\ UNCHANGED listing_page
    /\ UNCHANGED <<orchVars, priceVars, tierVars, extractVars, walkVars>>

CatalogNext == LoadCatalog

CatalogSpec == CatalogInit /\ [][CatalogNext]_vars

\* The loader has returned.
Loaded == "catalog" \in called

\* The values of an entry under the slug keys and under the title keys.
SlugKeys == << <<"U", "r", "l">>, <<"S", "h", "o", "w", "U", "r", "l", "E", "N">>, <<"u", "r", "l">>, <<"s", "l", "u", "g">> >>
TitleKeys == << <<"S", "h", "o", "w", "N", "a", "m", "e">>, <<"S", "o", "r", "t", "N", "a", "m", "e">>, <<"t", "i", "t", "l", "e">>, <<"n", "a", "m", "e">> >>

\* The texts an entry holds under the given keys, in the order of the keys.
TextsUnder(e, keys) ==
    LET values == [k \in 1..Len(keys) |-> Get(e[2], keys[k])]
    IN  SelectSeq(values, LAMBDA v : v # <<>> /\ v[1] = "str" /\ v[2] # <<>>)

\* A well-formed published entry: an object whose availability flag is false
\* and whose slug and title values are texts (or null, or left out), with at
\* least one slug and one title that are not blank.
WellFormed(e) ==
    /\ e[1] = "obj"
    /\ Get(e[2], <<"S", "h", "o", "w", "L", "e", "t", "U", "s", "K", "n", "o", "w">>) = <<"bool", FALSE>>
    /\ \A k \in 1..4 : \A v \in {Get(e[2], SlugKeys[k]), Get(e[2], TitleKeys[k])} :
           v = <<>> \/ v[1] = "null" \/ (v[1] = "str" /\ (v[2] = <<>> \/ Strip(v[2]) # <<>>))
    /\ TextsUnder(e, SlugKeys) # <<>>
    /\ TextsUnder(e, TitleKeys) # <<>>

\* C16: whatever entries surround it, every well-formed published entry of
\* the embedded array is in the returned list, and the loader does not raise.
C16_EntryFaultIsolation ==
    Loaded /\ listing_page.json_ok /\ listing_page.found # "none"
           /\ ~listing_page.goto_raises
    => \A i \in 1..Len(listing_page.entries) :
           WellFormed(listing_page.entries[i]) =>
               \E j \in 1..Len(shows) :
                   shows[j].title
                       = Strip(TextsUnder(listing_page.entries[i], TitleKeys)[1][2])

\* C17: every returned listing has a non-empty title and comes from an entry
\* whose flag is the JSON value false, with the url made of the origin and
\* the entry's slug, a "/" put in front of a slug that does not start with
\* one.
C17_CatalogFiltering ==
    Loaded =>
        \A j \in 1..Len(shows) :
            /\ shows[j].title # <<>>
            /\ \E i \in 1..Len(listing_page.entries) :
                   LET e == listing_page.entries[i]
                       slugs == { v \in { Get(e[2], k) : k \in {<<"U", "r", "l">>, <<"S", "h", "o", "w", "U", "r", "l", "E", "N">>, <<"u", "r", "l">>, <<"s", "l", "u", "g">>} } :
                                    v # <<>> /\ v[1] = "str" /\ v[2] # <<>> }
                   IN  /\ e[1] = "obj"
                       /\ Get(e[2], <<"S", "h", "o", "w", "L", "e", "t", "U", "s", "K", "n", "o", "w">>) = <<"bool", FALSE>>
                       /\ \E v \in slugs :
                              shows[j].url =
                                  <<"h", "t", "t", "p", "s", ":", "/", "/", "w", "w", "w", ".", "b", "r", "o", "a", "d", "w", "a", "y", "i", "n", "b", "o", "u", "n", "d", ".", "c", "o", "m">>
                                  \o (IF v[2][1] = "/" THEN <<>> ELSE <<"/">>) \o v[2]

(***************************************************************************)
(* ExtractSpec: one call of scrape_pricing (src/scrape.py:152-278), one    *)
(* action per step of the function.  show_page is a page as above, with    *)
(* eval_call naming the page.evaluate call that raises when eval_raises:   *)
(* 1 for fromDate, 2 for toDate, 3 for the DOM walk.  An exception leaves  *)
(* the function without browser.close(): the session is then stopped by    *)
(* the exit of the sync_playwright() block.                                *)
(***************************************************************************)
ShowPages ==
    { [goto_raises |-> g, trigger |-> t, click_raises |-> c, widget |-> w,
       eval_raises |-> e > 0, eval_call |-> e, rows |-> r, grid |-> d,
       walk |-> k] :
        g \in BOOLEAN, t \in BOOLEAN, c \in BOOLEAN, w \in BOOLEAN, e \in 0..3,
        r \in BOOLEAN, d \in BOOLEAN, k \in {<<>>, SampleLines} }

ExtractInit ==
    /\ IdleOrch
    /\ IdlePure
    /\ IdleBut({"extract"})
    /\ show_page \in ShowPages
    /\ step = "launch"
    /\ steps = <<>>
    /\ result = <<>>
    /\ browser = "none"
    /\ outcome = <<>>

\* The step at hand is performed and the call goes on with the next one.
GoOn(next) ==
    /\ steps' = Append(steps, step)
    /\ step' = next
    /\ outcome' = <<>>
    /\ UNCHANGED show_page
    /\ UNCHANGED <<orchVars, pureVars, priceVars, tierVars, catalogVars, walkVars>>

\* The step at hand is performed and the call returns result with the error.
ReturnError(error) ==
    /\ steps' = Append(steps, step)
    /\ step' = "end"
    /\ result' = << [result[1] EXCEPT !.error = error] >>
    /\ browser' = "closed"
    /\ outcome' = <<"returned">>
    /\ UNCHANGED show_page
    /\ UNCHANGED <<orchVars, pureVars, priceVars, tierVars, catalogVars, walkVars>>

\* The step at hand raises an exception that leaves the function.
RaiseFrom(exc) ==
    /\ steps' = Append(steps, step)
    /\ step' = "end"
    /\ browser' = "stopped"
    /\ outcome' = <<"raised", exc>>
    /\ UNCHANGED <<show_page, result>>
    /\ UNCHANGED <<orchVars, pureVars, priceVars, tierVars, catalogVars, walkVars>>

\* Lines 167-184.
Launch ==
    /\ step = "launch"
    /\ result' = << [scrapedData |-> <<>>, clickSuccessful |-> FALSE,
                     error |-> None] >>
    /\ browser' = "open"
    /\ GoOn("navigate")

\* Line 187.
Navigate ==
    /\ step = "navigate"
    /\ IF show_page.goto_raises
       THEN RaiseFrom(ExcGoto)
       ELSE GoOn("locate") /\ UNCHANGED <<result, browser>>

\* Lines 190-194.
LocateControl_goes_on ==
    /\ step = "locate"
    /\ IF ~show_page.trigger
       THEN /\ result' = << [result[1] EXCEPT !.error = ErrNoTrigger] >>
            /\ GoOn("click")
            /\ UNCHANGED browser
       ELSE GoOn("click") /\ UNCHANGED <<result, browser>>

LocateControl ==
    /\ step = "locate"
    /\ IF ~show_page.trigger
       THEN ReturnError(ErrNoTrigger)
       ELSE GoOn("click") /\ UNCHANGED <<result, browser>>

\* Lines 196-202.
Click ==
    /\ step = "click"
    /\ IF show_page.click_raises
       THEN ReturnError(ErrClick)
       ELSE /\ result' = << [result[1] EXCEPT !.clickSuccessful = TRUE] >>
            /\ GoOn("wait_widget")
            /\ UNCHANGED browser

\* Lines 206-213.
WaitWidget ==
    /\ step = "wait_widget"
    /\ IF ~show_page.widget
       THEN ReturnError(ErrWidget)
       ELSE GoOn("set_from") /\ UNCHANGED <<result, browser>>

\* Line 233.
SetFromDate ==
    /\ step = "set_from"
    /\ IF show_page.eval_call = 1
       THEN RaiseFrom(ExcEvaluate)
       ELSE GoOn("set_to") /\ UNCHANGED <<result, browser>>

\* Line 234.
SetToDate ==
    /\ step = "set_to"
    /\ IF show_page.eval_call = 2
       THEN RaiseFrom(ExcEvaluate)
       ELSE GoOn("settle") /\ UNCHANGED <<result, browser>>

\* Line 237.
Settle ==
    /\ step = "settle"
    /\ GoOn("wait_rows")
    /\ UNCHANGED <<result, browser>>

\* Lines 240-248.
WaitRows_no_probe ==
    /\ step = "wait_rows"
    /\ IF ~show_page.rows
       THEN ReturnError(ErrNoRows)
       ELSE GoOn("walk") /\ UNCHANGED <<result, browser>>

WaitRows ==
    /\ step = "wait_rows"
    /\ IF ~show_page.rows
       THEN IF ~show_page.grid THEN ReturnError(ErrGridMissing)
                               ELSE ReturnError(ErrNoRows)
       ELSE GoOn("walk") /\ UNCHANGED <<result, browser>>

\* Lines 254-278.
Walk ==
    /\ step = "walk"
    /\ IF show_page.eval_call = 3
       THEN RaiseFrom(ExcEvaluate)
       ELSE /\ steps' = Append(steps, step)
            /\ step' = "end"
            /\ result' = << [result[1] EXCEPT !.scrapedData = show_page.walk] >>
            /\ browser' = "closed"
            /\ outcome' = <<"returned">>
            /\ UNCHANGED show_page
            /\ UNCHANGED <<orchVars, pureVars, priceVars, tierVars, catalogVars, walkVars>>

ExtractNext ==
    \/ Launch
    \/ Navigate
    \/ LocateControl
    \/ Click
    \/ WaitWidget
    \/ SetFromDate
    \/ SetToDate
    \/ Settle
    \/ WaitRows
    \/ Walk

ExtractSpec == ExtractInit /\ [][ExtractNext]_vars

\* The steps of the call in the order of the function's text.
StepOrder ==
    << "launch", "navigate", "locate", "click", "wait_widget", "set_from",
       "set_to", "settle", "wait_rows", "walk" >>

\* The number of steps after which the call on the page ends.
LastStepOn(page) ==
    IF page.goto_raises THEN 2
    ELSE IF ~page.trigger THEN 3
    ELSE IF page.click_raises THEN 4
    ELSE IF ~page.widget THEN 5
    ELSE IF page.eval_call = 1 THEN 6
    ELSE IF page.eval_call = 2 THEN 7
    ELSE IF ~page.rows THEN 9
    ELSE 10

Failed ==
    /\ outcome # <<>>
    /\ outcome[1] = "raised" \/ result[1].error # None

\* C19: the steps performed are at every moment the first steps of the fixed
\* order navigate, locate, click, wait for the widget, set fromDate, set
\* toDate, settle, wait for rows, walk (after the launch), each once; the
\* call ends with the first step that fails, and then no data is returned and
\* no further step is performed; with the control absent the call returns
\* after locating, with the control-not-found error, the click flag false and
\* neither a wait nor a date set.
C19_StepOrder ==
    /\ [](/\ steps = SubSeq(StepOrder, 1, Len(steps))
          /\ outcome # <<>> =>
                /\ Len(steps) = LastStepOn(show_page)
                /\ Failed => result[1].scrapedData = <<>>
                /\ (~show_page.goto_raises /\ ~show_page.trigger) =>
                      /\ steps = <<"launch", "navigate", "locate">>
                      /\ outcome = <<"returned">>
                      /\ result[1].error = ErrNoTrigger
                      /\ ~result[1].clickSuccessful)
    /\ [][outcome # <<>> => steps' = steps]_vars

\* A call on a page without rows has ended after the row wait, with all the
\* steps before it performed in order.
C19_Witness ==
    /\ outcome = <<"returned">>
    /\ ~show_page.rows
    /\ steps = SubSeq(StepOrder, 1, 9)
    /\ result[1].error = ErrNoRows
    /\ result[1].clickSuccessful
    /\ result[1].scrapedData = <<>>

\* C20: a returned error tells the stage: the control-not-found message
\* exactly when the call ended at the locate step, the widget message exactly
\* when it ended at the widget wait, and one of the two row messages exactly
\* when it ended at the row wait: the grid-missing message if and only if the
\* grid container was absent then, the no-rows message otherwise.
C20_ErrorsTellTheStage ==
    (outcome = <<"returned">> /\ result[1].error # None) =>
        LET error == result[1].error
            last == steps[Len(steps)]
        IN  /\ error = ErrNoTrigger <=> last = "locate"
            /\ error = ErrWidget <=> last = "wait_widget"
            /\ error \in {ErrGridMissing, ErrNoRows} <=> last = "wait_rows"
            /\ last = "wait_rows" =>
                  /\ error = ErrGridMissing <=> ~show_page.grid
                  /\ error = ErrNoRows <=> show_page.grid

\* The row wait timed out on a page whose grid container had vanished.
C20_Witness ==
    /\ outcome = <<"returned">>
    /\ ~show_page.rows
    /\ ~show_page.grid
    /\ result[1].error = ErrGridMissing
    /\ steps[Len(steps)] = "wait_rows"

\* A response with the four other tiers as pairs and MidPremium as given
\* (left out when the value is empty).
WithMidPremium(value) ==
    ObjectText(<< Member(tier_order[1], <<"[", "\"", "$", "2", "0", "0", "\"", ",", " ", "\"", "$", "3", "0", "0", "\"", "]">>),
                  Member(tier_order[2], value),
                  Member(tier_order[3], <<"[", "\"", "$", "1", "0", "0", "\"", ",", " ", "\"", "$", "1", "5", "0", "\"", "]">>),
                  Member(tier_order[4], <<"[", "\"", "$", "8", "0", ".", "5", "0", "\"", ",", " ", "\"", "$", "9", "9", ".", "9", "9", "\"", "]">>),
                  Member(tier_order[5], <<"[", "\"", "$", "4", "9", ".", "4", "9", "\"", ",", " ", "\"", "$", "6", ".", "2", "5", "\"", "]">>) >>)

\* C27: with MidPremium left out, null or a pair of nulls and the other four
\* tiers valid, the classification succeeds and every row has "null" in
\* reg_tier_2.
C27_OptionalMidPremium ==
    ("ai" \in called /\ transformed_data # <<>> /\ ~collaborator.raises
        /\ collaborator.content # <<>>
        /\ collaborator.content[1] \in
               { WithMidPremium(v) : v \in {<<>>, <<"n", "u", "l", "l">>, <<"[", "n", "u", "l", "l", ",", " ", "n", "u", "l", "l", "]">>} })
    => /\ Classified
       /\ \A i \in 1..Len(ai_result[1].result_df[1]) :
              Get(ai_result[1].result_df[1][i], <<"r", "e", "g", "_", "t", "i", "e", "r", "_", "2">>) = <<"n", "u", "l", "l">>

MaxTaskList == 3

\* The loaded shows the select box offers, and the ranges the date input
\* gives.
LoadedShows ==
    { [title |-> "Show A", url |-> <<"/", "s", "h", "o", "w", "s", "/", "a">>],
      [title |-> "Show B", url |-> <<"/", "s", "h", "o", "w", "s", "/", "b">>] }

NoShow == [title |-> "", url |-> <<>>]

DateRanges ==
    { <<<<"0", "3", "/", "0", "8", "/", "2", "0", "2", "6">>, <<"0", "3", "/", "0", "8", "/", "2", "0", "2", "6">>>>, <<<<"0", "3", "/", "0", "8", "/", "2", "0", "2", "6">>, <<"0", "3", "/", "1", "5", "/", "2", "0", "2", "6">>>> }

TaskInit ==
    /\ IdleOrch
    /\ IdlePure
    /\ IdleExt

\* "Add New Task" (lines 878-880).
add_task ==
    /\ pc = "config"
    /\ ~is_running
    /\ Len(tasks) < MaxTaskList
    /\ tasks' = Append(tasks, [id |-> Len(tasks), show_title |-> "",
                               url |-> <<>>, from_date |-> <<>>,
                               to_date |-> <<>>])
    /\ UNCHANGED <<is_running, results, message, pc, valid_tasks, futures,
                   yielded, collected, completed, site>>
    /\ UNCHANGED <<pureVars, extVars>>

\* "Remove" of a displayed task (lines 867-869): every task of that id goes.
remove_task(task_id) ==
    /\ pc = "config"
    /\ ~is_running
    /\ tasks' = SelectSeq(tasks, LAMBDA t : t.id # task_id)
    /\ UNCHANGED <<is_running, results, message, pc, valid_tasks, futures,
                   yielded, collected, completed, site>>
    /\ UNCHANGED <<pureVars, extVars>>

\* The widgets of the i-th displayed task (lines 800-863): the select box
\* sets url and show_title ("Select a show..." empties them), the date input
\* sets from_date and to_date.
configure_task(i, show, range) ==
    /\ pc = "config"
    /\ ~is_running
    /\ tasks' = [tasks EXCEPT ![i] = [@ EXCEPT !.url = show.url,
                                               !.show_title = show.title,
                                               !.from_date = range[1],
                                               !.to_date = range[2]]]
    /\ UNCHANGED <<is_running, results, message, pc, valid_tasks, futures,
                   yielded, collected, completed, site>>
    /\ UNCHANGED <<pureVars, extVars>>

TaskNext ==
    \/ add_task
    \/ \E i \in 1..Len(tasks) : remove_task(tasks[i].id)
    \/ \E i \in 1..Len(tasks) : \E show \in LoadedShows \cup {NoShow} :
          \E range \in DateRanges : configure_task(i, show, range)

TaskSpec == TaskInit /\ [][TaskNext]_vars

\* C28: task id uniqueness.  After any sequence of add_task and remove_task
\* from the empty list the tasks have pairwise distinct ids, and a removal
\* takes exactly one task out and leaves the others and their order as they
\* were.
C28_TaskIdsUnique ==
    /\ [](\A i, j \in 1..Len(tasks) : i # j => tasks[i].id # tasks[j].id)
    /\ [][Len(tasks') < Len(tasks) =>
             \E k \in 1..Len(tasks) :
                 tasks' = SubSeq(tasks, 1, k - 1)
                             \o SubSeq(tasks, k + 1, Len(tasks))]_vars

(***************************************************************************)
(* WalkSpec: the DOM walk of scrape_pricing (src/scrape.py:254-273) on a   *)
(* pricing grid, followed by the two transformers of its lines.            *)
(*                                                                         *)
(* An element is a record: tagName, id, innerText (of a heading), the      *)
(* texts of the spans of its own '.product-data-column.product-section'    *)
(* and '.product-data-column.price' columns, and its child elements.       *)
(***************************************************************************)
MaxNodes == 3

Element(tagName, id, innerText, sections, prices, children) ==
    [tagName |-> tagName, id |-> id, innerText |-> innerText,
     sections |-> sections, prices |-> prices, children |-> children]

\* h3[id^='product-date-time-'], and the loop's test of line 262.
IdPrefix == <<"p", "r", "o", "d", "u", "c", "t", "-", "d", "a", "t", "e", "-", "t", "i", "m", "e", "-">>

is_header(node) ==
    /\ node.tagName = "H3"
    /\ node.id # <<>>
    /\ Len(node.id) >= Len(IdPrefix)
    /\ SubSeq(node.id, 1, Len(IdPrefix)) = IdPrefix

\* The spans of one column under the elements `nodes`, in document order.
RECURSIVE SpansUnder(_, _)
SpansUnder(nodes, column) ==
    IF nodes = <<>> THEN <<>>
    ELSE Head(nodes)[column]
            \o SpansUnder(Head(nodes).children, column)
            \o SpansUnder(Tail(nodes), column)

\* node.querySelectorAll(<column> span), lines 263-264.
querySelectorAll(node, column) == SpansUnder(<<node>>, column)

\* container.querySelectorAll(h3[id^='product-date-time-']), line 258: the
\* headers under `nodes` from place i on, in document order, each with the
\* list of siblings it stands in.
RECURSIVE HeadersUnder(_, _)
HeadersUnder(nodes, i) ==
    IF i > Len(nodes) THEN <<>>
    ELSE (IF is_header(nodes[i]) THEN << <<nodes, i>> >> ELSE <<>>)
            \o HeadersUnder(nodes[i].children, 1)
            \o HeadersUnder(nodes, i + 1)

\* Lines 263-268: the lines of one sibling element.
NodeLines(headerText, node) ==
    LET descSpans == querySelectorAll(node, "sections")
        priceSpans == querySelectorAll(node, "prices")
        len == IF Len(descSpans) < Len(priceSpans)
               THEN Len(descSpans) ELSE Len(priceSpans)
    IN  [i \in 1..len |-> [dateTime |-> headerText,
                           description |-> Strip(descSpans[i]),
                           price |-> Strip(priceSpans[i])]]

\* Lines 261-270: the walk over nextElementSibling, from place i of the
\* header's siblings to the next header or the end.
RECURSIVE SiblingLines(_, _, _)
SiblingLines(headerText, nodes, i) ==
    IF i > Len(nodes) \/ is_header(nodes[i]) THEN <<>>
    ELSE NodeLines(headerText, nodes[i])
            \o SiblingLines(headerText, nodes, i + 1)

\* Lines 259-271: headers.forEach.
RECURSIVE HeaderLines(_)
HeaderLines(headers) ==
    IF headers = <<>> THEN <<>>
    ELSE LET header == Head(headers)
             headerText == Strip(header[1][header[2]].innerText)
         IN  SiblingLines(headerText, header[1], header[2] + 1)
                \o HeaderLines(Tail(headers))

\* The script given to page.evaluate (lines 254-273); grid is <<>> when the
\* page has no #pricing-grid.
scraped_rows(grid) ==
    IF grid = <<>> THEN <<>>
    ELSE HeaderLines(HeadersUnder(grid[1].children, 1))

(***************************************************************************)
(* The grids the walk is run on: up to MaxNodes children drawn from        *)
(* headings, rows with equal and unequal numbers of spans, and elements    *)
(* that wrap rows or a heading with its rows.                              *)
(***************************************************************************)
Heading(label) ==
    Element("H3", IdPrefix \o <<"1">>, label, <<>>, <<>>, <<>>)

Row(sections, prices) ==
    Element("DIV", <<>>, <<>>, sections, prices, <<>>)

Wrapper(children) ==
    Element("DIV", <<>>, <<>>, <<>>, <<>>, children)

NodePool ==
    { Heading(ShowtimeA),
      Heading(<<" ">> \o ShowtimeC \o <<" ">>),
      Element("H3", <<"g", "r", "i", "d", "-", "t", "i", "t", "l", "e">>, <<"P", "r", "i", "c", "e", "s">>, <<>>, <<>>, <<>>),
      Row(<<<<"O", "r", "c", "h">>>>, <<<<"$", "1", "0", "0">>>>),
      Row(<<<<"O", "r", "c", "h">>, <<"M", "e", "z", "z">>>>, <<<<"$", "1", "0", "0">>>>),
      Row(<<<<"B", "a", "l", "c">>>>, <<<<"$", "8", "0">>, <<"$", "5", "0">>>>),
      Row(<<<<" ", "O", "r", "c", "h", " ", "/", " ", "M", "e", "z", "z", " ">>>>, <<<<"$", "2", "0", "0", ".", "0", "0">>>>),
      Wrapper(<<Row(<<<<"P", "r", "e", "m">>>>, <<<<"$", "1", "5", "0">>>>), Row(<<<<"M", "e", "z", "z", "/">>>>, <<<<"$", "9", "0">>>>)>>),
      Wrapper(<<Heading(ShowtimeC), Row(<<<<"B", "o", "x">>>>, <<<<"$", "3", "0", "0">>>>)>>) }

Grids ==
    {<<>>} \cup
    {<< Element("DIV", <<"p", "r", "i", "c", "i", "n", "g", "-", "g", "r", "i", "d">>, <<>>, <<>>, <<>>, children) >> :
        children \in ListsOver(NodePool, MaxNodes)}

WalkInit ==
    /\ IdleOrch
    /\ IdleBut({"walk"})
    /\ pricing_grid \in Grids
    /\ section_text = <<>>
    /\ category = <<>>
    /\ scraped_data = <<>>
    /\ formatted_by_date = <<>>
    /\ rows = <<>>
    /\ called = {}

\* page.evaluate and result["scrapedData"] = scraped_rows (lines 254-275).
WalkGrid ==
    /\ "walk" \notin called
    /\ scraped_data' = scraped_rows(pricing_grid)
    /\ called' = called \cup {"walk"}
    /\ UNCHANGED <<section_text, category, formatted_by_date, rows>>
    /\ UNCHANGED <<orchVars, extVars>>

\* The extracted lines are then given to the two transformers.
WalkNext ==
    \/ WalkGrid
    \/ "walk" \in called /\ FormatText
    \/ "walk" \in called /\ TransformRows

WalkSpec == WalkInit /\ [][WalkNext]_vars

(***************************************************************************)
(* The claims about the DOM walk.                                          *)
(***************************************************************************)
Walked == "walk" \in called

Children == IF pricing_grid = <<>> THEN <<>> ELSE pricing_grid[1].children

\* The grid's headings are all children of the grid itself.
HeadingsAreSiblings ==
    \A h \in 1..Len(HeadersUnder(Children, 1)) :
        HeadersUnder(Children, 1)[h][1] = Children

\* The places of the grid's children that make the showtime group of the
\* heading at place i: those after it, up to the next heading.
GroupOf(i) ==
    {j \in (i + 1)..Len(Children) :
        \A k \in (i + 1)..j : ~is_header(Children[k])}

\* The texts of one column in the whole group of the heading at place i.
GroupSpans(i, column) ==
    SpansUnder(SelectSeq([j \in 1..Len(Children) |->
                             IF j \in GroupOf(i) THEN Children[j]
                             ELSE Heading(<<>>)],
                         LAMBDA node : ~is_header(node)),
               column)

\* The lines the group of the heading at place i has when its i-th section
\* text is paired with its i-th price text, up to the shorter count.
GroupPairing(i) ==
    LET S == GroupSpans(i, "sections")
        P == GroupSpans(i, "prices")
        n == IF Len(S) < Len(P) THEN Len(S) ELSE Len(P)
    IN  [k \in 1..n |-> [dateTime |-> Strip(Children[i].innerText),
                         description |-> Strip(S[k]),
                         price |-> Strip(P[k])]]

RECURSIVE GroupPairings(_)
GroupPairings(i) ==
    IF i > Len(Children) THEN <<>>
    ELSE (IF is_header(Children[i]) THEN GroupPairing(i) ELSE <<>>)
            \o GroupPairings(i + 1)

\* C21: positional pairing per showtime group.  Every group gives
\* min(S, P) lines, S and P being the numbers of section and price texts of
\* the whole group, the i-th line pairing the group's i-th section text with
\* its i-th price text, however they lie in the group's sibling elements.
\* (Stated for grids whose headings are all siblings of each other.)
C21_PositionalPairing ==
    (Walked /\ HeadingsAreSiblings) => scraped_data = GroupPairings(1)

\* Every element of the grid, at any depth.
RECURSIVE ElementsUnder(_)
ElementsUnder(nodes) ==
    IF nodes = <<>> THEN {}
    ELSE {Head(nodes)} \cup ElementsUnder(Head(nodes).children)
            \cup ElementsUnder(Tail(nodes))

\* C22: heading-delimited grouping.  Every emitted line carries the text of
\* a product-date-time heading; the content of an element is attributed to
\* one heading and emitted at most once, so there are no more lines than
\* section texts or price texts in the grid; content that no heading
\* precedes gives no line.
C22_HeadingDelimitedGrouping ==
    Walked =>
        /\ \A k \in 1..Len(scraped_data) :
              \E node \in ElementsUnder(Children) :
                  /\ is_header(node)
                  /\ scraped_data[k].dateTime = Strip(node.innerText)
        /\ Len(scraped_data) <= Len(SpansUnder(Children, "sections"))
        /\ Len(scraped_data) <= Len(SpansUnder(Children, "prices"))
        /\ (Children # <<>> /\ ~is_header(Children[1])) =>
              Len(scraped_data)
                 <= Len(SpansUnder(Tail(Children), "sections"))

\* One entry per slash-delimited section of each line, trimmed, an empty
\* segment giving nothing, all with the line's price.
RECURSIVE SlashSplit(_)
SlashSplit(lines) ==
    IF lines = <<>> THEN <<>>
    ELSE LET line == Head(lines)
             parts == Split(line.description, "/")
             segments == SelectSeq([i \in 1..Len(parts) |-> Strip(parts[i])],
                                   LAMBDA segment : segment # <<>>)
         IN  [i \in 1..Len(segments) |->
                 [dateTime |-> line.dateTime, description |-> segments[i],
                  price |-> line.price]]
                \o SlashSplit(Tail(lines))

\* C23: slash splitting.  The extracted list holds one entry per
\* slash-delimited section of every paired description, and the display text
\* and the rows are those of that split list.
C23_SlashSplitting ==
    Walked =>
        /\ scraped_data = SlashSplit(scraped_rows(pricing_grid))
        /\ "format" \in called =>
              \E show_title \in {<<>>, <<"S", "i", "x">>} :
                  formatted_by_date =
                      format_pricing_by_date(
                          SlashSplit(scraped_rows(pricing_grid)), show_title)
        /\ "rows" \in called =>
              rows = transform_pricing_to_rows(
                         SlashSplit(scraped_rows(pricing_grid)))

=============================================================================
